---- MODULE Spec2Model ----
(***************************************************************************)
(* hackmate-ai: the synchronization layer between the project view and the *)
(* remote document store (projects, project_roles, tasks, messages,       *)
(* milestones), its bounded one-shot fetches, its batched compound writes  *)
(* and the optimistic task updates of the project view.                    *)
(*                                                                         *)
(* The remote store is modelled by what the code relies on: single-document*)
(* writes, filtered queries, and write batches that commit all-or-nothing  *)
(* (a batched update of a missing document fails the whole batch).        *)
(* Every await of the code is a point where other calls may interleave.    *)
(***************************************************************************)
EXTENDS Integers, Sequences, FiniteSets, TLC

\* ---------------------------------------------------------------- bounds
MaxProjects == 1      \* project documents ever created
MaxCalls    == 2      \* calls of the layer in flight at once
MaxTasks    == 2      \* task documents ever created
MaxMessages == 1      \* message documents ever created
MaxChanges  == 3      \* status changes made in the project view
MaxSubs     == 1      \* subscriptions opened at once
MaxDocs     == 3      \* documents written to the collections of a subscription
MaxVersions == 2      \* writes of one user document
MaxActivities == 52   \* activity documents written to the activity feed
FreeIdDraws == 2      \* activities whose project and id draw are left open
MaxGenerations == 6   \* clicks on the generate button
MaxBatch    == 2      \* tasks handed to one createTasks call
MaxAdded    == 1      \* tasks added through the view before its status changes
MaxAuthEvents == 4    \* auth-state changes and logout calls
MaxWrites   == 5      \* store timestamps given before the last updateTask call
ClockSkew   == 7      \* ms the client's clock may be ahead of the store's
NumDraws    == 2      \* distinct Math.random() draw sequences tried
TickMs      == 5000   \* largest amount of time one Tick lets pass

\* ------------------------------------------------------ program constants
CodeLength     == 6      \* generateJoinCode: for (let i = 0; i < 6; i++)
ProjectTimeout == 3000   \* getProject / getUserProjects: withTimeout(.., 3000, ..)
JoinTimeout    == 5000   \* joinProjectByCode: withTimeout(.., 5000, ..)
Null           == 0      \* null / "no document": document ids are 1, 2, ...

Users     == {"u1", "u2"}
Durations == {"24h", "48h"}
Statuses  == {"ToDo", "InProgress", "Done"}

\* ------------------------------------------------------- generateJoinCode
\* const chars = "ABCDEFGHIJKLMNOPQRSTUVWXYZ0123456789"
chars ==
  << "A", "B", "C", "D", "E", "F", "G", "H", "I", "J", "K", "L", "M",
     "N", "O", "P", "Q", "R", "S", "T", "U", "V", "W", "X", "Y", "Z",
     "0", "1", "2", "3", "4", "5", "6", "7", "8", "9" >>

\* Math.random() is a double in [0, 1): modelled on a grid of RandGrid points,
\* a draw k standing for k / RandGrid.
RandGrid == 1000

\* chars.charAt(Math.floor(Math.random() * chars.length))
RandomChar(k) == chars[((k * Len(chars)) \div RandGrid) + 1]

\* The loop of generateJoinCode after i iterations, draws[j] being the j-th
\* Math.random() result.
RECURSIVE JoinCodeLoop(_, _)
JoinCodeLoop(draws, i) ==
  IF i = 0 THEN << >>
  ELSE Append(JoinCodeLoop(draws, i - 1), RandomChar(draws[i]))

generateJoinCode(draws) == JoinCodeLoop(draws, CodeLength)

\* The draw sequences the model tries: NumDraws of them, spread over the grid
\* (first and last grid point included once NumDraws >= 2).
DrawSeqs ==
  { [i \in 1..CodeLength |->
        IF n = 1 THEN 0
        ELSE IF n = 2 THEN RandGrid - 1
        ELSE ((n * 389) + (i * 167)) % RandGrid] : n \in 1..NumDraws }

\* Codes a caller may type: every generated one and one nobody generated.
NoSuchCode == << "?", "?", "?", "?", "?", "?" >>
JoinCodes  == { generateJoinCode(d) : d \in DrawSeqs } \cup { NoSuchCode }

\* ------------------------------------------------------------------ state
VARIABLES
  dbAvailable,   \* getFirebaseDb() returns a handle (fixed for a run)
  projects,      \* collection "projects": id -> document
  roles,         \* collection "project_roles": <<project, user>> -> role
  tasks,         \* collection "tasks": id -> document
  messages,      \* collection "messages": id -> document
  milestones,    \* collection "milestones": set of documents
  clock,         \* the store's serverTimestamp() source
  numProjects,   \* ids handed out by doc(collection(db, "projects"))
  numTasks,      \* ids handed out by doc(collection(db, "tasks"))
  numMessages,   \* ids handed out by doc(collection(db, "messages"))
  background,    \* createProject's writes that nobody awaits
  calls,         \* the calls of the layer in flight: slot -> frame
  viewTasks,     \* the project view's `tasks` state: the local task list
  numChanges,    \* status changes the user has made in the view
  page,          \* the project view: its load, its state, its subscriptions
  scheduleEvents,\* collection "schedule_events": set of documents
  resources,     \* collection "shared_resources": set of documents
  activities,    \* collection "live_activities": set of documents
  notifications, \* collection "team_notifications": set of documents
  users,         \* collection "users": user id -> version of the document
  numDocs,       \* documents ever written to the four collections above
  subs,          \* the subscriptions opened through subscribeTo*: slot -> state
  auth,          \* the identity adapter: AuthProvider's state and pending lookups
  gen,           \* the document generator page: its state and its request
  wire,          \* the last write call of the layer: its arguments and the
                 \* field data it handed to the store
  wellness       \* collection "wellness_settings": its documents, and the
                 \* last saveWellnessSettings / getWellnessSettings call

storeVars == << projects, roles, tasks, messages, milestones, clock >>
idVars    == << numProjects, numTasks, numMessages >>
viewVars  == << viewTasks, numChanges, page >>
appVars   == << auth, gen, wire, wellness >>
exceptAuth == << gen, wire, wellness >>
exceptGen  == << auth, wire, wellness >>
exceptWire == << auth, gen, wellness >>
exceptWellness == << auth, gen, wire >>
feedVars  == << scheduleEvents, resources, activities, notifications, users,
                numDocs >>
vars      == << dbAvailable, storeVars, idVars, background, calls, viewVars, appVars,
                feedVars, subs >>

ProjectIds == 1..MaxProjects
TaskIds    == 1..MaxTasks
MessageIds == 1..MaxMessages
CallIds    == 1..MaxCalls
RoleKeys   == ProjectIds \X Users     \* the key `${projectId}_${userId}`

NoProject == [exists |-> FALSE, created_by |-> "", members |-> << >>,
              join_code |-> << >>, duration |-> "", created_at |-> Null]
NoTask    == [exists |-> FALSE, project_id |-> Null, status |-> "",
              last_updated |-> Null]
NoMessage == [exists |-> FALSE, project_id |-> Null, timestamp |-> Null]

\* A subscription: which subscribeTo* opened it, with which arguments, the
\* state of its stream(s), the documents its last snapshot held, the Map of
\* subscribeToProjectMembers, and what the caller's callback has received:
\* how often it was invoked and the last value (a nullable project is the
\* sequence of no or one document).
SubIds == 1..MaxSubs
NoSub == [kind |-> "none", state |-> "none", pid |-> Null, user |-> "",
          memberIds |-> << >>, streams |-> << >>, membersMap |-> << >>,
          seen |-> << >>, fired |-> FALSE, invoked |-> 0, last |-> << >>,
          cause |-> "", cancelled |-> FALSE]

\* The project view before its effect has run: loading, no project, no
\* members, no messages, no error, none of its three subscriptions opened.
\* memberIds is projectData.members of loadProject.
PageKinds == {"project", "tasks", "messages"}
NoPage == [pc |-> "start", mounted |-> FALSE, projectId |-> Null, call |-> Null,
           project |-> Null, loading |-> TRUE, error |-> "",
           memberIds |-> << >>, members |-> << >>, messages |-> << >>,
           subs |-> [k \in PageKinds |-> NoSub]]

\* The frame of a call: its arguments, its locals and where it waits.
Idle == [op |-> "none", pc |-> "idle", user |-> "", pid |-> Null,
         code |-> << >>, duration |-> "", members |-> << >>,
         status |-> "", update |-> FALSE, delTasks |-> {},
         delMessages |-> {}, logged |-> FALSE, tid |-> Null, closure |-> << >>,
         elapsed |-> 0, by |-> "", result |-> Null, list |-> << >>,
         seq |-> 0]

Range(s) == { s[i] : i \in DOMAIN s }

Min(a, b) == IF a <= b THEN a ELSE b

Settle(c, frame) == calls' = [calls EXCEPT ![c] = frame]

\* A settled call: the promise the caller holds. Of the frame the operation,
\* its document argument, how its bounded wait ended, what it logged and
\* batched, a view handler's arguments and closure, and the value it resolved
\* with are kept.
Resolved(frame, value) ==
  [Idle EXCEPT !.op = frame.op, !.pc = "resolved", !.pid = frame.pid,
               !.by = frame.by, !.logged = frame.logged,
               !.delTasks = frame.delTasks, !.delMessages = frame.delMessages,
               !.tid = frame.tid, !.status = frame.status, !.closure = frame.closure,
               !.result = value]
Rejected(frame) ==
  [Idle EXCEPT !.op = frame.op, !.pc = "rejected", !.pid = frame.pid,
               !.by = frame.by, !.logged = frame.logged]

\* A new call takes the first free slot.
Free(c) == calls[c].op = "none" /\ \A b \in CallIds : b < c => calls[b].op # "none"

\* getDb(): throws "Database not available" without a handle.
getDb == dbAvailable

\* What new Date() may read on the client, whose clock is not the store's:
\* the store's next timestamp, or a time ClockSkew ahead of it.
DateNow == { clock + 1, clock + 1 + ClockSkew }

\* A document of "users" is none (0), the document a merge write made where
\* there was none, with online_status as its only field (PartialDoc), or the
\* n-th content of a profile written by createUserProfile and updated since.
PartialDoc == 0 - 1

\* No write call made yet.
NoWire == [op |-> "none", inputs |-> << >>, payloads |-> << >>]

\* No document in "wellness_settings", nothing saved for any pair, no call
\* made yet. `saved` is the settings of the last committed save of a pair
\* (NoSettings when there is none); `call` is the last call and its outcome.
NoSettings == ""
NoWellness ==
  [docs |-> {},
   saved |-> [k \in ProjectIds \X Users |-> NoSettings],
   call |-> [op |-> "none", project_id |-> Null, user_id |-> "",
             outcome |-> "", result |-> NoSettings]]

\* No user (null) and no profile (null).
NoUser == ""
NoProfile == [user_id |-> "", version |-> 0, source |-> "none"]

\* AuthProvider mounted with an auth handle: nobody known yet, loading, the
\* listener of onAuthStateChanged registered. DocsGeneratorPage mounted:
\* nothing generated, no request.
InitApp ==
  /\ auth = [fbUser |-> NoUser, user |-> NoUser, userProfile |-> NoProfile,
          loading |-> TRUE, lookups |-> {}, lastLookup |-> "none",
          signingOut |-> FALSE, surfaced |-> FALSE, events |-> 0]
  /\ gen = [isGenerating |-> FALSE, generatedDocs |-> "", pc |-> "idle",
            toast |-> "none", calls |-> 0, requests |-> 0]
  /\ wire = NoWire
  /\ wellness = NoWellness

\* No document in the feed collections, no user document, no subscription.
InitFeeds ==
  /\ scheduleEvents = {}
  /\ resources = {}
  /\ activities = {}
  /\ notifications = {}
  /\ users = [u \in Users |-> 0]
  /\ numDocs = 0
  /\ subs = [s \in SubIds |-> NoSub]

Init ==
  /\ dbAvailable \in BOOLEAN
  /\ projects = [p \in ProjectIds |-> NoProject]
  /\ roles = [k \in RoleKeys |-> "none"]
  /\ tasks = [t \in TaskIds |-> NoTask]
  /\ messages = [m \in MessageIds |-> NoMessage]
  /\ milestones = {}
  /\ clock = 0
  /\ numProjects = 0
  /\ numTasks = 0
  /\ numMessages = 0
  /\ background = {}
  /\ calls = [c \in CallIds |-> Idle]
  /\ viewTasks = << >>
  /\ numChanges = 0
  /\ page = NoPage
  /\ InitFeeds
  /\ InitApp

\* ----------------------------------------------------------- createProject
\* The document createProject builds (name and the null-valued url fields,
\* which no operation of the model reads, are left out).
NewProjectNoMembers(u, d, code, ts) ==
  [exists |-> TRUE, created_by |-> u, members |-> << >>,
   join_code |-> code, duration |-> d, created_at |-> ts]

NewProject(u, d, code, ts) ==
  [exists |-> TRUE, created_by |-> u, members |-> << u >>,
   join_code |-> code, duration |-> d, created_at |-> ts]

\* createProject up to `await setDoc(projectRef, project)`.
CreateProject(c, u, d, draws) ==
  /\ Free(c)
  /\ \/ /\ ~getDb
        /\ Settle(c, Rejected([Idle EXCEPT !.op = "createProject", !.user = u]))
        /\ UNCHANGED numProjects
     \/ /\ getDb
        /\ numProjects < MaxProjects
        /\ numProjects' = numProjects + 1
        /\ Settle(c, [Idle EXCEPT !.op = "createProject", !.pc = "setDoc",
                                  !.user = u, !.duration = d,
                                  !.pid = numProjects + 1,
                                  !.code = generateJoinCode(draws)])
  /\ UNCHANGED << dbAvailable, storeVars, numTasks, numMessages, background >>
  /\ UNCHANGED << viewVars, appVars, feedVars, subs >>

\* The primary write settles; on success the two background writes are
\* started and the call resolves with the id without awaiting them.
CreateProjectSetDoc(c) ==
  LET f == calls[c] IN
  /\ f.op = "createProject" /\ f.pc = "setDoc"
  /\ \/ /\ projects' = [projects EXCEPT
                          ![f.pid] = NewProject(f.user, f.duration, f.code, clock + 1)]
        /\ clock' = clock + 1
        /\ \E now \in DateNow :
             background' = background \cup
               { [kind |-> "role", pid |-> f.pid, user |-> f.user,
                  duration |-> f.duration, now |-> Null],
                 [kind |-> "milestones", pid |-> f.pid, user |-> f.user,
                  duration |-> f.duration, now |-> now] }
        /\ Settle(c, Resolved(f, f.pid))
     \/ /\ Settle(c, Rejected(f))
        /\ UNCHANGED << projects, clock, background >>
  /\ UNCHANGED << dbAvailable, roles, tasks, messages, milestones, idVars >>
  /\ UNCHANGED << viewVars, appVars, feedVars, subs >>

\* The role write awaited without its catch: its failure rejects the call.
BackgroundRoleAwaited(b, ok) ==
  /\ b \in background /\ b.kind = "role"
  /\ background' = background \ {b}
  /\ roles' = IF ok THEN [roles EXCEPT ![<< b.pid, b.user >>] = "admin"] ELSE roles
  /\ calls' = [c \in CallIds |->
                IF ~ok /\ calls[c].op = "createProject" /\ calls[c].pid = b.pid
                THEN Rejected(calls[c]) ELSE calls[c]]
  /\ UNCHANGED << dbAvailable, projects, tasks, messages, milestones, clock,
                  idVars >>
  /\ UNCHANGED << viewVars, appVars, feedVars, subs >>

\* setDoc(project_roles/{id}_{user}, {role: "admin"}).catch(() => {}); `ok` is
\* the store's answer to the write.
BackgroundRole(b, ok) ==
  /\ b \in background /\ b.kind = "role"
  /\ background' = background \ {b}
  /\ roles' = IF ok THEN [roles EXCEPT ![<< b.pid, b.user >>] = "admin"] ELSE roles
  /\ UNCHANGED << dbAvailable, projects, tasks, messages, milestones, clock,
                  idVars, calls >>
  /\ UNCHANGED << viewVars, appVars, feedVars, subs >>

\* createDefaultMilestones: deadlines at 20%, 70% and 100% of the duration
\* after `now`, in milliseconds from `now` (the products durationHours * 0.2
\* and durationHours * 0.7 are off by less than 1e-7 ms in double arithmetic
\* and the sum with now.getTime() rounds to the exact millisecond).
DurationHours(d) == IF d = "24h" THEN 24 ELSE 48

\* The batch without its second set.
DefaultMilestonesTwo(pid, d, now, ids) ==
  { [milestone_id |-> ids[1], project_id |-> pid, type |-> "idea_submission",
     status |-> "upcoming", deadline |-> now + (DurationHours(d) * 2 * 360000)],
    [milestone_id |-> ids[3], project_id |-> pid, type |-> "final_presentation",
     status |-> "upcoming", deadline |-> now + (DurationHours(d) * 60 * 60 * 1000)] }

DefaultMilestones(pid, d, now, ids) ==
  { [milestone_id |-> ids[1], project_id |-> pid, type |-> "idea_submission",
     status |-> "upcoming", deadline |-> now + (DurationHours(d) * 2 * 360000)],
    [milestone_id |-> ids[2], project_id |-> pid, type |-> "prototype",
     status |-> "upcoming", deadline |-> now + (DurationHours(d) * 7 * 360000)],
    [milestone_id |-> ids[3], project_id |-> pid, type |-> "final_presentation",
     status |-> "upcoming", deadline |-> now + (DurationHours(d) * 60 * 60 * 1000)] }

\* createDefaultMilestones(...).catch(() => {}): one batch of three sets,
\* with `now` read when createProject called it. `ok` is the store's answer
\* to the commit. The three random ids are drawn so that the documents' id
\* order is not their deadline order.
BackgroundMilestones(b, ok) ==
  /\ b \in background /\ b.kind = "milestones"
  /\ background' = background \ {b}
  /\ IF ok
     THEN /\ milestones' = milestones \cup
               DefaultMilestones(b.pid, b.duration, b.now,
                                 << 0 - (numDocs + 1), 0 - (numDocs + 2),
                                    0 - (numDocs + 3) >>)
          /\ numDocs' = numDocs + 3
     ELSE UNCHANGED << milestones, numDocs >>
  /\ UNCHANGED << dbAvailable, projects, roles, tasks, messages, clock,
                  idVars, calls >>
  /\ UNCHANGED << viewVars, appVars, scheduleEvents, resources, activities, notifications,
                  users, subs >>

\* No settled call is waiting to be taken and no milestone batch is pending.
\* Taking a settled promise and committing the milestone batch touch nothing
\* that another action of the specifications below reads or writes (the
\* frame of a settled call, the milestones collection), so they commute with
\* every other step, and letting them run first loses no behaviour of the
\* rest of the state.
Quiet ==
  /\ \A c \in CallIds : calls[c].pc \notin {"resolved", "rejected"}
  /\ \A b \in background : b.kind # "milestones"

\* The caller takes the settled promise; the slot is free again.
Return(c) ==
  /\ calls[c].pc \in {"resolved", "rejected"}
  /\ Settle(c, Idle)
  /\ UNCHANGED << dbAvailable, storeVars, idVars, background >>
  /\ UNCHANGED << viewVars, appVars, feedVars, subs >>

\* -------------------------------------------------------------- withTimeout
\* Promise.race([promise, timer(ms, fallback)]).catch(() => fallback): what
\* the awaiting code receives, `by` telling how the race ended: the store's
\* promise fulfilled ("store"), it rejected ("error"), or the timer won
\* ("timer").
\* `ok` is FALSE when the returned promise rejects.
WithTimeoutNoCatch(by, value, fallback) ==
  [ok |-> by # "error", value |-> IF by = "store" THEN value ELSE fallback]

WithTimeout(by, value, fallback) ==
  [ok |-> TRUE, value |-> IF by = "store" THEN value ELSE fallback]

TimeoutOf(f) ==
  IF f.op = "joinProjectByCode" THEN JoinTimeout ELSE ProjectTimeout

\* The call waits inside a withTimeout.
Timed(f) == f.pc \in {"lookup", "fetch"}

TimerNeverDue(f) == FALSE

\* setTimeout(() => resolve(fallback), ms) is due.
TimerDue(f) == Timed(f) /\ f.elapsed >= TimeoutOf(f)

\* Time passes for every pending timer, by at most TickMs and never past a
\* timer that is due: a due timer fires (or loses the race) first.
Tick ==
  LET waiting == { c \in CallIds : Timed(calls[c]) }
      left(c) == TimeoutOf(calls[c]) - calls[c].elapsed
      step(c) == IF left(c) > 0 THEN Min(TickMs, left(c)) ELSE TickMs
      d == CHOOSE n \in { step(c) : c \in waiting } :
             \A c \in waiting : n <= step(c)
  IN
  /\ waiting # {}
  /\ \A c \in waiting : ~TimerDue(calls[c])
  /\ calls' = [c \in CallIds |->
                 IF c \in waiting
                 THEN [calls[c] EXCEPT !.elapsed = calls[c].elapsed + d]
                 ELSE calls[c]]
  /\ UNCHANGED << dbAvailable, storeVars, idVars, background >>
  /\ UNCHANGED << viewVars, appVars, feedVars, subs >>

\* ------------------------------------------------------- joinProjectByCode
\* where("join_code", "==", joinCode)
CodeMatchesAny(code) ==
  { p \in ProjectIds : projects[p].exists }

CodeMatches(code) ==
  { p \in ProjectIds : projects[p].exists /\ projects[p].join_code = code }

\* arrayUnion(userId)
ArrayUnion(arr, u) == IF u \in Range(arr) THEN arr ELSE Append(arr, u)

\* joinProjectByCode up to `await withTimeout(getDocs(q), 5000, ...)`; the
\* catch block rethrows, so a missing handle rejects the call.
JoinProjectByCode(c, code, u) ==
  /\ Free(c)
  /\ IF getDb
     THEN Settle(c, [Idle EXCEPT !.op = "joinProjectByCode", !.pc = "lookup",
                                 !.user = u, !.code = code])
     ELSE Settle(c, Rejected([Idle EXCEPT !.op = "joinProjectByCode",
                                          !.user = u, !.code = code]))
  /\ UNCHANGED << dbAvailable, storeVars, idVars, background >>
  /\ UNCHANGED << viewVars, appVars, feedVars, subs >>

\* After the lookup: `first` is snapshot.docs[0].id, Null for an empty
\* snapshot. A rejection reaching the await is rethrown by the catch block;
\* an empty snapshot returns null; otherwise the batch is built and its
\* commit awaited.
JoinAfterLookup(c, by, first) ==
  LET f == [calls[c] EXCEPT !.by = by, !.elapsed = 0]
      snapshot == WithTimeout(by, first, Null)
  IN IF ~snapshot.ok
     THEN Settle(c, Rejected(f))
     ELSE IF snapshot.value = Null
     THEN Settle(c, Resolved(f, Null))
     ELSE Settle(c, [f EXCEPT !.pc = "commit", !.pid = snapshot.value])

\* getDocs(q) fulfils. Generated ids are random, so any matching document
\* may come first in the snapshot.
JoinLookupSettles(c) ==
  LET f == calls[c] IN
  /\ f.op = "joinProjectByCode" /\ f.pc = "lookup"
  /\ IF CodeMatches(f.code) = {}
     THEN JoinAfterLookup(c, "store", Null)
     ELSE \E p \in CodeMatches(f.code) : JoinAfterLookup(c, "store", p)
  /\ UNCHANGED << dbAvailable, storeVars, idVars, background >>
  /\ UNCHANGED << viewVars, appVars, feedVars, subs >>

\* getDocs(q) rejects.
JoinLookupFails(c) ==
  LET f == calls[c] IN
  /\ f.op = "joinProjectByCode" /\ f.pc = "lookup"
  /\ JoinAfterLookup(c, "error", Null)
  /\ UNCHANGED << dbAvailable, storeVars, idVars, background >>
  /\ UNCHANGED << viewVars, appVars, feedVars, subs >>

\* The 5000 ms timer wins the race.
JoinLookupTimesOut(c) ==
  LET f == calls[c] IN
  /\ f.op = "joinProjectByCode" /\ f.pc = "lookup"
  /\ TimerDue(f)
  /\ JoinAfterLookup(c, "timer", Null)
  /\ UNCHANGED << dbAvailable, storeVars, idVars, background >>
  /\ UNCHANGED << viewVars, appVars, feedVars, subs >>

\* What the committed batch of joinProjectByCode writes.
JoinBatchMembersOnly(p, u) ==
  /\ projects' = [projects EXCEPT ![p].members = ArrayUnion(projects[p].members, u)]
  /\ UNCHANGED roles

JoinBatch(p, u) ==
  /\ projects' = [projects EXCEPT ![p].members = ArrayUnion(projects[p].members, u)]
  /\ roles' = [roles EXCEPT ![<< p, u >>] = "member"]

\* batch.commit() settles: all of the batch or nothing; the update of a
\* project document that no longer exists fails the batch.
JoinCommit(c) ==
  LET f == calls[c] IN
  /\ f.op = "joinProjectByCode" /\ f.pc = "commit"
  /\ \/ /\ projects[f.pid].exists
        /\ JoinBatch(f.pid, f.user)
        /\ Settle(c, Resolved(f, f.pid))
     \/ /\ Settle(c, Rejected(f))
        /\ UNCHANGED << projects, roles >>
  /\ UNCHANGED << dbAvailable, tasks, messages, milestones, clock, idVars,
                  background >>
  /\ UNCHANGED << viewVars, appVars, feedVars, subs >>

\* ------------------------------------------------- removeMemberFromProject
\* currentMembers.filter((memberId) => memberId !== userId)
WithoutNone(arr, u) == arr

Without(arr, u) == SelectSeq(arr, LAMBDA m : m # u)

\* removeMemberFromProject up to `await getDoc(projectRef)`.
RemoveMemberFromProject(c, p, u) ==
  /\ Free(c)
  /\ IF getDb
     THEN Settle(c, [Idle EXCEPT !.op = "removeMemberFromProject",
                                 !.pc = "getDoc", !.pid = p, !.user = u])
     ELSE Settle(c, Rejected([Idle EXCEPT !.op = "removeMemberFromProject",
                                          !.pid = p, !.user = u]))
  /\ UNCHANGED << dbAvailable, storeVars, idVars, background >>
  /\ UNCHANGED << viewVars, appVars, feedVars, subs >>

\* getDoc settles; the batch gets the update of the member array as read
\* now (when the project exists) and the delete of the role record.
RemoveGetDoc(c) ==
  LET f == calls[c] IN
  /\ f.op = "removeMemberFromProject" /\ f.pc = "getDoc"
  /\ \/ Settle(c, [f EXCEPT !.pc = "commit",
                            !.update = projects[f.pid].exists,
                            !.members = IF projects[f.pid].exists
                                        THEN Without(projects[f.pid].members, f.user)
                                        ELSE << >>])
     \/ Settle(c, Rejected(f))
  /\ UNCHANGED << dbAvailable, storeVars, idVars, background >>
  /\ UNCHANGED << viewVars, appVars, feedVars, subs >>

RemoveCommit(c) ==
  LET f == calls[c] IN
  /\ f.op = "removeMemberFromProject" /\ f.pc = "commit"
  /\ \/ /\ f.update => projects[f.pid].exists
        /\ projects' = IF f.update
                       THEN [projects EXCEPT ![f.pid].members = f.members]
                       ELSE projects
        /\ roles' = [roles EXCEPT ![<< f.pid, f.user >>] = "none"]
        /\ Settle(c, Resolved(f, Null))
     \/ /\ Settle(c, Rejected(f))
        /\ UNCHANGED << projects, roles >>
  /\ UNCHANGED << dbAvailable, tasks, messages, milestones, clock, idVars,
                  background >>
  /\ UNCHANGED << viewVars, appVars, feedVars, subs >>

\* ------------------------------------------------------------ deleteProject
TasksOf(p)    == { t \in TaskIds : tasks[t].exists /\ tasks[t].project_id = p }
MessagesOf(p) == { m \in MessageIds : messages[m].exists /\ messages[m].project_id = p }

\* deleteProject up to `await getDocs(tasksQuery)`.
DeleteProject(c, p) ==
  /\ Free(c)
  /\ IF getDb
     THEN Settle(c, [Idle EXCEPT !.op = "deleteProject", !.pc = "tasksQuery",
                                 !.pid = p])
     ELSE Settle(c, Rejected([Idle EXCEPT !.op = "deleteProject", !.pid = p]))
  /\ UNCHANGED << dbAvailable, storeVars, idVars, background >>
  /\ UNCHANGED << viewVars, appVars, feedVars, subs >>

DeleteTasksQueryNoCatch(c) ==
  LET f == calls[c] IN
  /\ f.op = "deleteProject" /\ f.pc = "tasksQuery"
  /\ \/ Settle(c, [f EXCEPT !.pc = "messagesQuery", !.delTasks = TasksOf(f.pid)])
     \/ Settle(c, Rejected([f EXCEPT !.logged = TRUE]))
  /\ UNCHANGED << dbAvailable, storeVars, idVars, background >>
  /\ UNCHANGED << viewVars, appVars, feedVars, subs >>

\* The tasks query settles: its documents go into the batch, or its error
\* is logged and swallowed (`logged` is the console.error of a catch block).
DeleteTasksQuery(c) ==
  LET f == calls[c] IN
  /\ f.op = "deleteProject" /\ f.pc = "tasksQuery"
  /\ \/ Settle(c, [f EXCEPT !.pc = "messagesQuery", !.delTasks = TasksOf(f.pid)])
     \/ Settle(c, [f EXCEPT !.pc = "messagesQuery", !.logged = TRUE])
  /\ UNCHANGED << dbAvailable, storeVars, idVars, background >>
  /\ UNCHANGED << viewVars, appVars, feedVars, subs >>

DeleteMessagesQuery(c) ==
  LET f == calls[c] IN
  /\ f.op = "deleteProject" /\ f.pc = "messagesQuery"
  /\ \/ Settle(c, [f EXCEPT !.pc = "commit", !.delMessages = MessagesOf(f.pid)])
     \/ Settle(c, [f EXCEPT !.pc = "commit", !.logged = TRUE])
  /\ UNCHANGED << dbAvailable, storeVars, idVars, background >>
  /\ UNCHANGED << viewVars, appVars, feedVars, subs >>

\* What the committed batch of deleteProject deletes.
DeleteBatchProjectOnly(f) ==
  /\ projects' = [projects EXCEPT ![f.pid] = NoProject]
  /\ UNCHANGED << tasks, messages >>

DeleteBatch(f) ==
  /\ tasks' = [t \in TaskIds |-> IF t \in f.delTasks THEN NoTask ELSE tasks[t]]
  /\ messages' = [m \in MessageIds |->
                    IF m \in f.delMessages THEN NoMessage ELSE messages[m]]
  /\ projects' = [projects EXCEPT ![f.pid] = NoProject]

\* deleteProject deleting the role records of the project with it.
DeleteCommitCascade(c) ==
  LET f == calls[c] IN
  /\ f.op = "deleteProject" /\ f.pc = "commit"
  /\ \/ /\ DeleteBatch(f)
        /\ roles' = [k \in RoleKeys |-> IF k[1] = f.pid THEN "none" ELSE roles[k]]
        /\ Settle(c, Resolved(f, Null))
     \/ /\ Settle(c, Rejected(f))
        /\ UNCHANGED << projects, tasks, messages, roles >>
  /\ UNCHANGED << dbAvailable, milestones, clock, idVars, background >>
  /\ UNCHANGED << viewVars, appVars, feedVars, subs >>

\* batch.commit() settles: deletes have no precondition.
DeleteCommit(c) ==
  LET f == calls[c] IN
  /\ f.op = "deleteProject" /\ f.pc = "commit"
  /\ \/ /\ DeleteBatch(f)
        /\ Settle(c, Resolved(f, Null))
     \/ /\ Settle(c, Rejected(f))
        /\ UNCHANGED << projects, tasks, messages >>
  /\ UNCHANGED << dbAvailable, roles, milestones, clock, idVars, background >>
  /\ UNCHANGED << viewVars, appVars, feedVars, subs >>

\* ------------------------------------------------- createTask, sendMessage
\* createTask up to `await setDoc(taskRef, cleanTask)` (of the task's fields
\* the model keeps project_id, status and last_updated).
CreateTask(c, p, st) ==
  /\ Free(c)
  /\ \/ /\ ~getDb
        /\ Settle(c, Rejected([Idle EXCEPT !.op = "createTask", !.pid = p]))
        /\ UNCHANGED numTasks
     \/ /\ getDb
        /\ numTasks < MaxTasks
        /\ numTasks' = numTasks + 1
        /\ Settle(c, [Idle EXCEPT !.op = "createTask", !.pc = "setDoc",
                                  !.pid = p, !.status = st,
                                  !.result = numTasks + 1])
  /\ UNCHANGED << dbAvailable, storeVars, numProjects, numMessages, background >>
  /\ UNCHANGED << viewVars, appVars, feedVars, subs >>

CreateTaskSetDoc(c) ==
  LET f == calls[c] IN
  /\ f.op = "createTask" /\ f.pc = "setDoc"
  /\ \/ /\ tasks' = [tasks EXCEPT ![f.result] =
                       [exists |-> TRUE, project_id |-> f.pid, status |-> f.status,
                        last_updated |-> clock + 1]]
        /\ clock' = clock + 1
        /\ Settle(c, Resolved(f, f.result))
     \/ /\ Settle(c, Rejected(f))
        /\ UNCHANGED << tasks, clock >>
  /\ UNCHANGED << dbAvailable, projects, roles, messages, milestones,
                  idVars, background >>
  /\ UNCHANGED << viewVars, appVars, feedVars, subs >>

\* sendMessage up to `await setDoc(msgRef, ...)` (of the message's fields the
\* model keeps project_id and the server timestamp).
SendMessage(c, p) ==
  /\ Free(c)
  /\ \/ /\ ~getDb
        /\ Settle(c, Rejected([Idle EXCEPT !.op = "sendMessage", !.pid = p]))
        /\ UNCHANGED numMessages
     \/ /\ getDb
        /\ numMessages < MaxMessages
        /\ numMessages' = numMessages + 1
        /\ Settle(c, [Idle EXCEPT !.op = "sendMessage", !.pc = "setDoc",
                                  !.pid = p, !.result = numMessages + 1])
  /\ UNCHANGED << dbAvailable, storeVars, numProjects, numTasks, background >>
  /\ UNCHANGED << viewVars, appVars, feedVars, subs >>

SendMessageSetDoc(c) ==
  LET f == calls[c] IN
  /\ f.op = "sendMessage" /\ f.pc = "setDoc"
  /\ \/ /\ messages' = [messages EXCEPT ![f.result] =
                          [exists |-> TRUE, project_id |-> f.pid,
                           timestamp |-> clock + 1]]
        /\ clock' = clock + 1
        /\ Settle(c, Resolved(f, f.result))
     \/ /\ Settle(c, Rejected(f))
        /\ UNCHANGED << messages, clock >>
  /\ UNCHANGED << dbAvailable, projects, roles, tasks, milestones,
                  idVars, background >>
  /\ UNCHANGED << viewVars, appVars, feedVars, subs >>

\* ------------------------------------------ addTask, createTasks, updateTask
\* addTask up to `await setDoc(taskRef, taskData)`. The whole body is in a
\* try block whose catch logs and returns null: without a handle getDb()
\* throws inside it and the call resolves with null.
AddTask(c, p, st) ==
  /\ Free(c)
  /\ \/ /\ ~getDb
        /\ Settle(c, Resolved([Idle EXCEPT !.op = "addTask", !.pid = p,
                                           !.logged = TRUE], Null))
        /\ UNCHANGED numTasks
     \/ /\ getDb
        /\ numTasks < MaxTasks
        /\ numTasks' = numTasks + 1
        /\ Settle(c, [Idle EXCEPT !.op = "addTask", !.pc = "setDoc",
                                  !.pid = p, !.status = st, !.tid = numTasks + 1])
  /\ UNCHANGED << dbAvailable, storeVars, numProjects, numMessages, background >>
  /\ UNCHANGED << viewVars, appVars, feedVars, subs >>

\* setDoc settles: the new task (its task_id) is returned, or the error is
\* logged and null is returned.
AddTaskSetDoc(c) ==
  LET f == calls[c] IN
  /\ f.op = "addTask" /\ f.pc = "setDoc"
  /\ \/ /\ tasks' = [tasks EXCEPT ![f.tid] =
                       [exists |-> TRUE, project_id |-> f.pid, status |-> f.status,
                        last_updated |-> clock + 1]]
        /\ clock' = clock + 1
        /\ Settle(c, Resolved(f, f.tid))
     \/ /\ Settle(c, Resolved([f EXCEPT !.logged = TRUE], Null))
        /\ UNCHANGED << tasks, clock >>
  /\ UNCHANGED << dbAvailable, projects, roles, messages, milestones,
                  idVars, background >>
  /\ UNCHANGED << viewVars, appVars, feedVars, subs >>

\* createTasks up to `await batch.commit()`: one set per task, each with a
\* new id (`list` holds the ids of the batch).
CreateTasks(c, p, n) ==
  /\ Free(c)
  /\ \/ /\ ~getDb
        /\ Settle(c, Rejected([Idle EXCEPT !.op = "createTasks", !.pid = p]))
        /\ UNCHANGED numTasks
     \/ /\ getDb
        /\ numTasks + n <= MaxTasks
        /\ numTasks' = numTasks + n
        /\ Settle(c, [Idle EXCEPT !.op = "createTasks", !.pc = "commit", !.pid = p,
                                  !.list = [i \in 1..n |-> numTasks + i]])
  /\ UNCHANGED << dbAvailable, storeVars, numProjects, numMessages, background >>
  /\ UNCHANGED << viewVars, appVars, feedVars, subs >>

\* batch.commit() settles: every task of the batch is written, or none.
CreateTasksCommit(c) ==
  LET f == calls[c] IN
  /\ f.op = "createTasks" /\ f.pc = "commit"
  /\ \/ /\ tasks' = [t \in TaskIds |->
                       IF t \in Range(f.list)
                       THEN [exists |-> TRUE, project_id |-> f.pid, status |-> "ToDo",
                             last_updated |-> clock + 1]
                       ELSE tasks[t]]
        /\ clock' = clock + 1
        /\ Settle(c, Resolved(f, Null))
     \/ /\ Settle(c, Rejected(f))
        /\ UNCHANGED << tasks, clock >>
  /\ UNCHANGED << dbAvailable, projects, roles, messages, milestones,
                  idVars, background >>
  /\ UNCHANGED << viewVars, appVars, feedVars, subs >>

\* updateTask up to `await updateDoc(doc(db, "tasks", taskId), cleanUpdates)`.
UpdateTask(c, t, st) ==
  /\ Free(c)
  /\ IF getDb
     THEN Settle(c, [Idle EXCEPT !.op = "updateTask", !.pc = "updateDoc",
                                 !.tid = t, !.status = st])
     ELSE Settle(c, Rejected([Idle EXCEPT !.op = "updateTask", !.tid = t]))
  /\ UNCHANGED << dbAvailable, storeVars, idVars, background >>
  /\ UNCHANGED << viewVars, appVars, feedVars, subs >>

\* updateDoc settles: it writes into an existing document only.
UpdateTaskUpdateDoc(c) ==
  LET f == calls[c] IN
  /\ f.op = "updateTask" /\ f.pc = "updateDoc"
  /\ \/ /\ tasks[f.tid].exists
        /\ tasks' = [tasks EXCEPT ![f.tid].status = f.status,
                                  ![f.tid].last_updated = clock + 1]
        /\ clock' = clock + 1
        /\ Settle(c, Resolved(f, Null))
     \/ /\ Settle(c, Rejected(f))
        /\ UNCHANGED << tasks, clock >>
  /\ UNCHANGED << dbAvailable, projects, roles, messages, milestones,
                  idVars, background >>
  /\ UNCHANGED << viewVars, appVars, feedVars, subs >>

\* ------------------------------------------- getProject, getUserProjects
\* getProject up to `await withTimeout(getDoc(...), 3000, null)`; a missing
\* handle throws inside the try block and the catch returns null.
GetProject(c, p) ==
  /\ Free(c)
  /\ IF getDb
     THEN Settle(c, [Idle EXCEPT !.op = "getProject", !.pc = "fetch", !.pid = p])
     ELSE Settle(c, Resolved([Idle EXCEPT !.op = "getProject", !.pid = p], Null))
  /\ UNCHANGED << dbAvailable, storeVars, idVars, background >>
  /\ UNCHANGED << viewVars, appVars, feedVars, subs >>

\* After the bounded wait: `doc` is the id of the document read, Null when
\* it does not exist. A rejection reaching the await is caught and gives
\* null, as does the null fallback and a snapshot of no document.
GetProjectAfterFetch(c, by, doc) ==
  LET f == [calls[c] EXCEPT !.by = by, !.elapsed = 0]
      projectDoc == WithTimeout(by, doc, Null)
  IN IF ~projectDoc.ok
     THEN Settle(c, Resolved(f, Null))
     ELSE Settle(c, Resolved(f, projectDoc.value))

GetProjectSettles(c) ==
  LET f == calls[c] IN
  /\ f.op = "getProject" /\ f.pc = "fetch"
  /\ GetProjectAfterFetch(c, "store", IF projects[f.pid].exists THEN f.pid ELSE Null)
  /\ UNCHANGED << dbAvailable, storeVars, idVars, background >>
  /\ UNCHANGED << viewVars, appVars, feedVars, subs >>

GetProjectFails(c) ==
  LET f == calls[c] IN
  /\ f.op = "getProject" /\ f.pc = "fetch"
  /\ GetProjectAfterFetch(c, "error", Null)
  /\ UNCHANGED << dbAvailable, storeVars, idVars, background >>
  /\ UNCHANGED << viewVars, appVars, feedVars, subs >>

\* The 3000 ms timer wins the race.
GetProjectTimesOut(c) ==
  LET f == calls[c] IN
  /\ f.op = "getProject" /\ f.pc = "fetch"
  /\ TimerDue(f)
  /\ GetProjectAfterFetch(c, "timer", Null)
  /\ UNCHANGED << dbAvailable, storeVars, idVars, background >>
  /\ UNCHANGED << viewVars, appVars, feedVars, subs >>

\* where("members", "array-contains", userId)
ProjectsOfUser(u) ==
  { p \in ProjectIds : projects[p].exists /\ u \in Range(projects[p].members) }

\* projects.sort((a, b) => b.created_at - a.created_at): newest first.
RECURSIVE SortByCreatedDesc(_)
SortByCreatedDesc(S) ==
  IF S = {} THEN << >>
  ELSE LET newest == CHOOSE p \in S :
                       \A q \in S : projects[p].created_at >= projects[q].created_at
       IN << newest >> \o SortByCreatedDesc(S \ {newest})

\* getUserProjects up to `await withTimeout(getDocs(q), 3000, {docs: []})`.
GetUserProjects(c, u) ==
  /\ Free(c)
  /\ IF getDb
     THEN Settle(c, [Idle EXCEPT !.op = "getUserProjects", !.pc = "fetch", !.user = u])
     ELSE Settle(c, Resolved([Idle EXCEPT !.op = "getUserProjects"], Null))
  /\ UNCHANGED << dbAvailable, storeVars, idVars, background >>
  /\ UNCHANGED << viewVars, appVars, feedVars, subs >>

\* After the bounded wait: `docs` is the set of documents of the snapshot;
\* the result is the sorted list (the empty list for the fallback).
GetUserProjectsAfterFetch(c, by, docs) ==
  LET f == [calls[c] EXCEPT !.by = by, !.elapsed = 0]
      snapshot == WithTimeout(by, docs, {})
  IN IF ~snapshot.ok
     THEN Settle(c, Resolved(f, Null))
     ELSE Settle(c, [Resolved(f, Null) EXCEPT !.list = SortByCreatedDesc(snapshot.value)])

GetUserProjectsSettles(c) ==
  LET f == calls[c] IN
  /\ f.op = "getUserProjects" /\ f.pc = "fetch"
  /\ GetUserProjectsAfterFetch(c, "store", ProjectsOfUser(f.user))
  /\ UNCHANGED << dbAvailable, storeVars, idVars, background >>
  /\ UNCHANGED << viewVars, appVars, feedVars, subs >>

GetUserProjectsFails(c) ==
  LET f == calls[c] IN
  /\ f.op = "getUserProjects" /\ f.pc = "fetch"
  /\ GetUserProjectsAfterFetch(c, "error", {})
  /\ UNCHANGED << dbAvailable, storeVars, idVars, background >>
  /\ UNCHANGED << viewVars, appVars, feedVars, subs >>

GetUserProjectsTimesOut(c) ==
  LET f == calls[c] IN
  /\ f.op = "getUserProjects" /\ f.pc = "fetch"
  /\ TimerDue(f)
  /\ GetUserProjectsAfterFetch(c, "timer", {})
  /\ UNCHANGED << dbAvailable, storeVars, idVars, background >>
  /\ UNCHANGED << viewVars, appVars, feedVars, subs >>

\* ------------------------------------------- project view: task status
\* prev.map((t) => (t.task_id === taskId ? { ...t, status } : t))
SetStatus(list, taskId, status) ==
  [i \in DOMAIN list |->
     IF list[i].task_id = taskId THEN [list[i] EXCEPT !.status = status]
     ELSE list[i]]

\* tasks.find((t) => t.task_id === taskId): the first match, or none.
Find(list, taskId) ==
  LET hits == { i \in DOMAIN list : list[i].task_id = taskId }
  IN IF hits = {} THEN << >>
     ELSE << list[CHOOSE i \in hits : \A j \in hits : i <= j] >>

\* The catch block of handleUpdateTaskStatus: `tasks` is the list of the
\* render the handler was created in, `prev` the current state.
RevertFromCurrent(prev, closure, taskId) ==
  LET originalTask == Find(prev, taskId)
  IN IF originalTask = << >> THEN prev
     ELSE SetStatus(prev, taskId, originalTask[1].status)

Revert(prev, closure, taskId) ==
  LET originalTask == Find(closure, taskId)
  IN IF originalTask = << >> THEN prev
     ELSE SetStatus(prev, taskId, originalTask[1].status)

\* handleUpdateTaskStatus(taskId, status) up to `await updateTask(...)`: the
\* optimistic setTasks, then the remote write is issued. The handler is the
\* one of the current render: its `tasks` is the list as it is now.
HandleUpdateTaskStatus(c, t, st) ==
  /\ Free(c)
  /\ numChanges < MaxChanges
  /\ numChanges' = numChanges + 1
  /\ viewTasks' = SetStatus(viewTasks, t, st)
  /\ Settle(c, [Idle EXCEPT !.op = "handleUpdateTaskStatus", !.pc = "updateTask",
                            !.tid = t, !.status = st, !.closure = viewTasks,
                            !.seq = numChanges + 1])
  /\ UNCHANGED << dbAvailable, storeVars, idVars, background, feedVars, subs,
                  appVars, page >>

\* What the view does to its list when updateTask has fulfilled: nothing.
AfterUpdateApplyAgain(list, taskId, status) == SetStatus(list, taskId, status)

AfterUpdate(list, taskId, status) == list

\* updateTask fulfils: updateDoc wrote the status and a fresh last_updated
\* into an existing task document.
UpdateTaskSettles(c) ==
  LET f == calls[c] IN
  /\ f.op = "handleUpdateTaskStatus" /\ f.pc = "updateTask"
  /\ getDb /\ tasks[f.tid].exists
  /\ tasks' = [tasks EXCEPT ![f.tid].status = f.status,
                            ![f.tid].last_updated = clock + 1]
  /\ clock' = clock + 1
  /\ viewTasks' = AfterUpdate(viewTasks, f.tid, f.status)
  /\ UNCHANGED numChanges
  /\ Settle(c, Resolved([f EXCEPT !.by = "store"], Null))
  /\ UNCHANGED << dbAvailable, projects, roles, messages, milestones, idVars,
                  background, feedVars, subs, appVars, page >>

\* updateTask rejects (no handle, no such document, the write failed): the
\* catch block reverts, and the handler returns.
UpdateTaskFails(c) ==
  LET f == calls[c] IN
  /\ f.op = "handleUpdateTaskStatus" /\ f.pc = "updateTask"
  /\ viewTasks' = Revert(viewTasks, f.closure, f.tid)
  /\ UNCHANGED numChanges
  /\ Settle(c, Resolved([f EXCEPT !.by = "error"], Null))
  /\ UNCHANGED << dbAvailable, storeVars, idVars, background, feedVars, subs,
                  appVars, page >>

\* ------------------------------------------------------------ subscriptions
\* The subscribeTo* functions that watch a query: each maps, sorts and hands
\* over the documents of every snapshot of its query.
ListKinds == {"tasks", "messages", "milestones", "scheduleEvents", "resources",
              "activities", "notifications"}

\* The queries with where("user_id", "==", userId) besides the project filter.
UserFiltered == {"scheduleEvents", "notifications"}

\* The onSnapshot calls that pass an error callback.
HasErrorHandler(kind) ==
  kind \in {"tasks", "messages", "milestones", "scheduleEvents"}

\* The comparator given to Array.prototype.sort: "desc" is (a, b) => b - a on
\* the time field, "asc" is (a, b) => a - b, "none" is no sort call.
SortOrder(kind) ==
  CASE kind \in {"tasks", "activities", "notifications"} -> "desc"
    [] kind \in {"messages", "milestones", "scheduleEvents"} -> "asc"
    [] OTHER -> "none"

\* activities.slice(0, 50)
ActivityLimit == 50

\* The documents of a collection in the model's common shape: `time` is the
\* field the subscription sorts by (last_updated, timestamp, deadline,
\* start_time, created_at).
Collection(kind) ==
  CASE kind = "tasks" ->
         { [id |-> t, project_id |-> tasks[t].project_id, user_id |-> "",
            time |-> tasks[t].last_updated] : t \in { x \in TaskIds : tasks[x].exists } }
    [] kind = "messages" ->
         { [id |-> m, project_id |-> messages[m].project_id, user_id |-> "",
            time |-> messages[m].timestamp] :
             m \in { x \in MessageIds : messages[x].exists } }
    [] kind = "milestones" ->
         { [id |-> m.milestone_id, project_id |-> m.project_id, user_id |-> "",
            time |-> m.deadline] : m \in milestones }
    [] kind = "scheduleEvents" -> scheduleEvents
    [] kind = "resources" -> resources
    [] kind = "activities" -> activities
    [] kind = "notifications" -> notifications

\* The writes of this client that the store has not acknowledged: the local
\* cache shows their documents at once, a serverTimestamp() field reading
\* null until the write is acknowledged.
PendingWrites(kind) ==
  CASE kind = "tasks" ->
         { [id |-> calls[c].result, project_id |-> calls[c].pid, user_id |-> "",
            time |-> Null] :
             c \in { x \in CallIds : calls[x].op = "createTask" /\ calls[x].pc = "setDoc" } }
         \cup
         { [id |-> calls[c].tid, project_id |-> calls[c].pid, user_id |-> "",
            time |-> Null] :
             c \in { x \in CallIds : calls[x].op = "addTask" /\ calls[x].pc = "setDoc" } }
    [] kind = "messages" ->
         { [id |-> calls[c].result, project_id |-> calls[c].pid, user_id |-> "",
            time |-> Null] :
             c \in { x \in CallIds : calls[x].op = "sendMessage" /\ calls[x].pc = "setDoc" } }
    [] OTHER -> {}

\* snapshot.docs: a query without orderBy lists its documents by id.
RECURSIVE SeqById(_)
SeqById(S) ==
  IF S = {} THEN << >>
  ELSE LET d == CHOOSE x \in S : \A y \in S : x.id <= y.id
       IN << d >> \o SeqById(S \ {d})

\* What the query of a subscription matches.
MatchesProjectOnly(kind, d, p, u) == d.project_id = p

Matches(kind, d, p, u) ==
  /\ d.project_id = p
  /\ kind \in UserFiltered => d.user_id = u

QueryDocs(kind, p, u) ==
  SeqById({ d \in Collection(kind) \cup PendingWrites(kind) : Matches(kind, d, p, u) })

\* data.x?.toDate?.() || new Date(): the stored time, or the client's clock
\* where the field holds none.
ToDate(ts, now) == IF ts = Null THEN now ELSE ts

\* Array.prototype.sort is stable: an element goes behind those that the
\* comparator does not put after it.
RECURSIVE Insert(_, _, _)
Insert(list, d, order) ==
  IF list = << >> THEN << d >>
  ELSE IF (order = "asc" /\ Head(list).time <= d.time)
            \/ (order = "desc" /\ Head(list).time >= d.time)
       THEN << Head(list) >> \o Insert(Tail(list), d, order)
       ELSE << d >> \o list

RECURSIVE Sort(_, _)
Sort(list, order) ==
  IF list = << >> \/ order = "none" THEN list
  ELSE Insert(Sort(SubSeq(list, 1, Len(list) - 1), order), list[Len(list)], order)

Slice(list, n) == SubSeq(list, 1, Min(n, Len(list)))

\* The snapshot callback of a subscription up to its callback(...) call: map,
\* sort, and for activities cut to the first 50.
DeliverSliceFirst(kind, docs, now) ==
  LET mapped == [i \in DOMAIN docs |-> [docs[i] EXCEPT !.time = ToDate(@, now)]]
  IN IF kind = "activities"
     THEN Sort(Slice(mapped, ActivityLimit), SortOrder(kind))
     ELSE Sort(mapped, SortOrder(kind))

DeliverUnsorted(kind, docs, now) ==
  LET mapped == [i \in DOMAIN docs |-> [docs[i] EXCEPT !.time = ToDate(@, now)]]
  IN IF kind = "activities" THEN Slice(mapped, ActivityLimit) ELSE mapped

Deliver(kind, docs, now) ==
  LET mapped == [i \in DOMAIN docs |-> [docs[i] EXCEPT !.time = ToDate(@, now)]]
      sorted == Sort(mapped, SortOrder(kind))
  IN IF kind = "activities" THEN Slice(sorted, ActivityLimit) ELSE sorted

\* The caller's callback is invoked with `value`.
Callback(sub, value, cause) ==
  [sub EXCEPT !.invoked = @ + 1, !.last = value, !.cause = cause]

FreeSub(s) == subs[s].kind = "none" /\ \A r \in SubIds : r < s => subs[r].kind # "none"

\* subscribeToTasks, subscribeToMessages, subscribeToMilestones,
\* subscribeToScheduleEvents, subscribeToResources, subscribeToActivities,
\* subscribeToNotifications: onSnapshot(q, ...) is returned, or without a
\* handle callback([]) and a no-op unsubscribe.
SubscribeToList(s, kind, p, u) ==
  /\ FreeSub(s)
  /\ kind \in ListKinds
  /\ subs' = [subs EXCEPT ![s] =
       IF getDb
       THEN [NoSub EXCEPT !.kind = kind, !.state = "open", !.pid = p,
                          !.user = IF kind \in UserFiltered THEN u ELSE ""]
       ELSE Callback([NoSub EXCEPT !.kind = kind, !.state = "noop", !.pid = p,
                                   !.user = IF kind \in UserFiltered THEN u ELSE ""],
                     << >>, "unavailable")]
  /\ UNCHANGED << dbAvailable, storeVars, idVars, background, calls, viewVars, appVars,
                  feedVars >>

\* The stream delivers a snapshot: the first one, or one after the documents
\* of the query changed.
SnapshotDue(s) ==
  /\ subs[s].kind \in ListKinds /\ subs[s].state = "open"
  /\ \/ ~subs[s].fired
     \/ QueryDocs(subs[s].kind, subs[s].pid, subs[s].user) # subs[s].seen

ListSnapshot(s, now) ==
  LET sub == subs[s]
      docs == QueryDocs(sub.kind, sub.pid, sub.user)
  IN
  /\ SnapshotDue(s)
  /\ subs' = [subs EXCEPT ![s] =
       Callback([sub EXCEPT !.seen = docs, !.fired = TRUE],
                Deliver(sub.kind, docs, now), "snapshot")]
  /\ UNCHANGED << dbAvailable, storeVars, idVars, background, calls, viewVars, appVars,
                  feedVars >>

\* The stream fails: the listener is closed by the store and gets no further
\* event; the error callback, where one was passed, calls callback([]).
ListStreamError(s) ==
  LET sub == subs[s] IN
  /\ sub.kind \in ListKinds /\ sub.state = "open"
  /\ subs' = [subs EXCEPT ![s] =
       IF HasErrorHandler(sub.kind)
       THEN Callback([sub EXCEPT !.state = "errored"], << >>, "error")
       ELSE [sub EXCEPT !.state = "errored"]]
  /\ UNCHANGED << dbAvailable, storeVars, idVars, background, calls, viewVars, appVars,
                  feedVars >>

\* subscribeToProject: one document is watched; the callback gets the
\* project or null.
SubscribeToProject(s, p) ==
  /\ FreeSub(s)
  /\ subs' = [subs EXCEPT ![s] =
       IF getDb
       THEN [NoSub EXCEPT !.kind = "project", !.state = "open", !.pid = p]
       ELSE Callback([NoSub EXCEPT !.kind = "project", !.state = "noop", !.pid = p],
                     << >>, "unavailable")]
  /\ UNCHANGED << dbAvailable, storeVars, idVars, background, calls, viewVars, appVars,
                  feedVars >>

ProjectSnapshot(s, now) ==
  LET sub == subs[s]
      docs == IF projects[sub.pid].exists THEN << projects[sub.pid] >> ELSE << >>
  IN
  /\ sub.kind = "project" /\ sub.state = "open"
  /\ ~sub.fired \/ docs # sub.seen
  /\ subs' = [subs EXCEPT ![s] =
       Callback([sub EXCEPT !.seen = docs, !.fired = TRUE],
                [i \in DOMAIN docs |->
                   [docs[i] EXCEPT !.created_at = ToDate(@, now)]],
                "snapshot")]
  /\ UNCHANGED << dbAvailable, storeVars, idVars, background, calls, viewVars, appVars,
                  feedVars >>

ProjectStreamError(s) ==
  LET sub == subs[s] IN
  /\ sub.kind = "project" /\ sub.state = "open"
  /\ subs' = [subs EXCEPT ![s] =
       Callback([sub EXCEPT !.state = "errored"], << >>, "error")]
  /\ UNCHANGED << dbAvailable, storeVars, idVars, background, calls, viewVars, appVars,
                  feedVars >>

\* subscribeToProjectMembers: one onSnapshot per element of memberIds, all
\* writing into one Map whose values every update hands to the callback.
MemberIdLists ==
  { << >>, << "u1" >>, << "u1", "u2" >>, << "u2", "u1" >>, << "u1", "u1" >> }

SubscribeToProjectMembers(s, memberIds) ==
  /\ FreeSub(s)
  /\ subs' = [subs EXCEPT ![s] =
       IF getDb
       THEN [NoSub EXCEPT !.kind = "members", !.state = "open",
                          !.memberIds = memberIds,
                          !.streams = [i \in DOMAIN memberIds |->
                                         [open |-> TRUE, fired |-> FALSE, seen |-> 0]]]
       ELSE Callback([NoSub EXCEPT !.kind = "members", !.state = "noop",
                                   !.memberIds = memberIds],
                     << >>, "unavailable")]
  /\ UNCHANGED << dbAvailable, storeVars, idVars, background, calls, viewVars, appVars,
                  feedVars >>

\* membersMap.set(id, doc.data()): a Map keeps the place of a key it has.
MapSetAppend(map, id, doc) == Append(map, doc)

MapSet(map, id, doc) ==
  IF \E i \in DOMAIN map : map[i].user_id = id
  THEN [i \in DOMAIN map |-> IF map[i].user_id = id THEN doc ELSE map[i]]
  ELSE Append(map, doc)

\* The stream of the i-th member id delivers the user document as it is now.
MemberSnapshot(s, i) ==
  LET sub == subs[s]
      id == sub.memberIds[i]
      stream == [open |-> TRUE, fired |-> TRUE, seen |-> users[id]]
      map == MapSet(sub.membersMap, id, [user_id |-> id, version |-> users[id]])
  IN
  /\ sub.kind = "members" /\ sub.state = "open"
  /\ i \in DOMAIN sub.memberIds /\ sub.streams[i].open
  /\ ~sub.streams[i].fired \/ users[id] # sub.streams[i].seen
  /\ subs' = [subs EXCEPT ![s] =
       IF users[id] # 0
       THEN Callback([sub EXCEPT !.streams[i] = stream, !.membersMap = map],
                     map, "snapshot")
       ELSE [sub EXCEPT !.streams[i] = stream]]
  /\ UNCHANGED << dbAvailable, storeVars, idVars, background, calls, viewVars, appVars,
                  feedVars >>

\* The stream of the i-th member id fails: the error is logged.
MemberStreamError(s, i) ==
  LET sub == subs[s] IN
  /\ sub.kind = "members" /\ sub.state = "open"
  /\ i \in DOMAIN sub.memberIds /\ sub.streams[i].open
  /\ subs' = [subs EXCEPT ![s].streams[i].open = FALSE]
  /\ UNCHANGED << dbAvailable, storeVars, idVars, background, calls, viewVars, appVars,
                  feedVars >>

\* The handle a subscribeTo* call returned is invoked. The handle of
\* onSnapshot detaches the listener, which gets no event afterwards; the
\* handle of subscribeToProjectMembers invokes the handle of every stream it
\* opened; the handle returned without a database is () => {}.
UnsubFirstOnly(sub) ==
  [sub EXCEPT !.cancelled = TRUE,
              !.state = IF sub.kind # "members" /\ @ = "open" THEN "closed" ELSE @,
              !.streams = [i \in DOMAIN @ |-> IF i = 1 THEN [@[i] EXCEPT !.open = FALSE]
                                                       ELSE @[i]]]

Unsub(sub) ==
  [sub EXCEPT !.cancelled = TRUE,
              !.state = IF sub.kind # "members" /\ @ = "open" THEN "closed" ELSE @,
              !.streams = [i \in DOMAIN @ |-> [@[i] EXCEPT !.open = FALSE]]]

Unsubscribe(s) ==
  /\ subs[s].kind # "none" /\ ~subs[s].cancelled
  /\ subs' = [subs EXCEPT ![s] = Unsub(subs[s])]
  /\ UNCHANGED << dbAvailable, storeVars, idVars, background, calls, viewVars, appVars,
                  feedVars >>

\* ----------------------------------------------- writes to the feed collections
\* doc(collection(db, ...)).id is random: the new document sorts before
\* (`low`) or after the documents the collection has.
NewDocId(low) == IF low THEN 0 - (numDocs + 1) ELSE numDocs + 1

\* setDoc(doc(db, "users", uid), ...): the user document is written again.
SetUserDoc(u) ==
  /\ getDb
  /\ users[u] < MaxVersions
  /\ users' = [users EXCEPT ![u] = IF @ = PartialDoc THEN 1 ELSE @ + 1]
  /\ UNCHANGED << dbAvailable, storeVars, idVars, background, calls, viewVars, appVars,
                  scheduleEvents, resources, activities, notifications, numDocs,
                  subs >>

\* createMilestone: the deadline is the caller's.
CreateMilestone(p, deadline, low) ==
  /\ getDb
  /\ milestones' = milestones \cup
       { [milestone_id |-> NewDocId(low), project_id |-> p, type |-> "custom",
          status |-> "upcoming", deadline |-> deadline] }
  /\ numDocs' = numDocs + 1
  /\ UNCHANGED << dbAvailable, projects, roles, tasks, messages, clock, idVars,
                  background, calls, viewVars, appVars, scheduleEvents, resources,
                  activities, notifications, users, subs >>

\* createScheduleEvent: start_time is the caller's.
CreateScheduleEvent(p, u, start, low) ==
  /\ getDb
  /\ scheduleEvents' = scheduleEvents \cup
       { [id |-> NewDocId(low), project_id |-> p, user_id |-> u, time |-> start] }
  /\ numDocs' = numDocs + 1
  /\ UNCHANGED << dbAvailable, storeVars, idVars, background, calls, viewVars, appVars,
                  resources, activities, notifications, users, subs >>

\* uploadResource: created_at is serverTimestamp().
UploadResource(p, low) ==
  /\ getDb
  /\ resources' = resources \cup
       { [id |-> NewDocId(low), project_id |-> p, user_id |-> "", time |-> clock + 1] }
  /\ clock' = clock + 1
  /\ numDocs' = numDocs + 1
  /\ UNCHANGED << dbAvailable, projects, roles, tasks, messages, milestones,
                  idVars, background, calls, viewVars, appVars, scheduleEvents,
                  activities, notifications, users, subs >>

\* addActivity: timestamp is serverTimestamp().
AddActivity(p, low) ==
  /\ getDb
  /\ activities' = activities \cup
       { [id |-> NewDocId(low), project_id |-> p, user_id |-> "", time |-> clock + 1] }
  /\ clock' = clock + 1
  /\ numDocs' = numDocs + 1
  /\ UNCHANGED << dbAvailable, projects, roles, tasks, messages, milestones,
                  idVars, background, calls, viewVars, appVars, scheduleEvents,
                  resources, notifications, users, subs >>

\* createNotification: created_at is serverTimestamp(); the read flag is
\* the caller's.
CreateNotification(p, u, low) ==
  /\ getDb
  /\ \E r \in BOOLEAN :
       notifications' = notifications \cup
         { [id |-> NewDocId(low), project_id |-> p, user_id |-> u,
            time |-> clock + 1, read |-> r] }
  /\ clock' = clock + 1
  /\ numDocs' = numDocs + 1
  /\ UNCHANGED << dbAvailable, projects, roles, tasks, messages, milestones,
                  idVars, background, calls, viewVars, appVars, scheduleEvents,
                  resources, activities, users, subs >>

\* ------------------------------------------------------ markNotificationRead
\* updateDoc(doc(db, "team_notifications", notificationId), { read: true })
markNotificationReadData == "read" :> "true"

\* The call as `wire` records it: nothing is handed over without a handle.
MarkCall(id) ==
  [op |-> "markNotificationRead", inputs |-> << [notificationId |-> id] >>,
   payloads |-> IF getDb THEN << markNotificationReadData >> ELSE << >>]

\* markNotificationRead writing read: true to every notification of the
\* addressed one's user.
MarkNotificationReadAll(id, ok) ==
  /\ IF getDb /\ ok /\ \E d \in notifications : d.id = id
     THEN notifications' =
            { IF \E a \in notifications : a.id = id /\ a.user_id = d.user_id
              THEN [d EXCEPT !.read = (markNotificationReadData["read"] = "true")]
              ELSE d : d \in notifications }
     ELSE UNCHANGED notifications
  /\ wire' = MarkCall(id)
  /\ UNCHANGED << dbAvailable, storeVars, idVars, background, calls, viewVars,
                  scheduleEvents, resources, activities, users, numDocs, subs >>
  /\ UNCHANGED exceptWire

\* markNotificationRead: getDb() throws without a handle; updateDoc writes
\* { read: true } into the document of that id, and rejects when the store
\* fails or has no such document.
MarkNotificationRead(id, ok) ==
  /\ IF getDb /\ ok /\ \E d \in notifications : d.id = id
     THEN notifications' =
            { IF d.id = id
              THEN [d EXCEPT !.read = (markNotificationReadData["read"] = "true")]
              ELSE d : d \in notifications }
     ELSE UNCHANGED notifications
  /\ wire' = MarkCall(id)
  /\ UNCHANGED << dbAvailable, storeVars, idVars, background, calls, viewVars,
                  scheduleEvents, resources, activities, users, numDocs, subs >>
  /\ UNCHANGED exceptWire

\* ------------------------------------------------------- the identity adapter
\* createDefaultProfile(user): derived from the auth user alone.
createDefaultProfile(u) == [user_id |-> u, version |-> 0, source |-> "default"]

\* profileDoc.data() as UserProfile: the document as it is, with the user_id
\* field it has (a document made by a merge write of the adapter has none).
ProfileData(u) ==
  [user_id |-> IF users[u] = PartialDoc THEN "" ELSE u, version |-> users[u],
   source |-> "persisted"]

\* The callback of onAuthStateChanged up to its await: the auth service
\* reports user u (NoUser after a sign-out). For a user the default profile
\* is published and loading cleared, and with a database the lookup of the
\* persisted profile starts.
AuthStateChanged(u) ==
  /\ auth.events < MaxAuthEvents
  /\ u # auth.fbUser
  /\ auth' = IF u # NoUser
             THEN [auth EXCEPT !.fbUser = u, !.user = u,
                               !.userProfile = createDefaultProfile(u),
                               !.loading = FALSE,
                               !.lookups = IF dbAvailable
                                           THEN @ \cup {[n |-> auth.events, user |-> u]}
                                           ELSE @,
                               !.events = @ + 1]
             ELSE [auth EXCEPT !.fbUser = u, !.user = u,
                               !.userProfile = NoProfile, !.loading = FALSE,
                               !.events = @ + 1]
  /\ UNCHANGED << dbAvailable, storeVars, idVars, background, calls, viewVars,
                  feedVars, subs >>
  /\ UNCHANGED exceptAuth

\* The lookup without its try block: a rejected getDoc escapes the callback.
ProfileLookupNoCatch(l, ok) ==
  /\ l \in auth.lookups
  /\ auth' = [auth EXCEPT
       !.lookups = @ \ {l},
       !.userProfile = IF ok /\ users[l.user] # 0 THEN ProfileData(l.user) ELSE @,
       !.surfaced = @ \/ ~ok,
       !.lastLookup = IF ~ok THEN "failed"
                      ELSE IF users[l.user] # 0 THEN "found" ELSE "missing"]
  /\ UNCHANGED << dbAvailable, storeVars, idVars, background, calls, viewVars,
                  feedVars, subs >>
  /\ UNCHANGED exceptAuth

\* getDoc(doc(db, "users", user.uid)) of a callback settles: a document
\* that exists is published as the profile; a rejection (~ok) is caught and
\* dropped. `user` is the argument of that callback.
ProfileLookup(l, ok) ==
  /\ l \in auth.lookups
  /\ auth' = [auth EXCEPT
       !.lookups = @ \ {l},
       !.userProfile = IF ok /\ users[l.user] # 0 THEN ProfileData(l.user) ELSE @,
       !.lastLookup = IF ~ok THEN "failed"
                      ELSE IF users[l.user] # 0 THEN "found" ELSE "missing"]
  /\ UNCHANGED << dbAvailable, storeVars, idVars, background, calls, viewVars,
                  feedVars, subs >>
  /\ UNCHANGED exceptAuth

\* logout up to `await signOut(auth)`: with a user and a database the
\* presence write {online_status: false} is sent with merge (`ok`: the store
\* applies it; its failure is swallowed).
Logout(ok) ==
  /\ auth.events < MaxAuthEvents
  /\ ~auth.signingOut
  /\ auth' = [auth EXCEPT !.signingOut = TRUE, !.events = @ + 1]
  /\ users' = IF auth.user # NoUser /\ dbAvailable /\ ok
              THEN [users EXCEPT ![auth.user] =
                      IF @ = 0 THEN PartialDoc
                      ELSE IF @ = PartialDoc THEN @ ELSE @ + 1]
              ELSE users
  /\ UNCHANGED << dbAvailable, storeVars, idVars, background, calls, viewVars,
                  scheduleEvents, resources, activities, notifications, numDocs,
                  subs >>
  /\ UNCHANGED exceptAuth

\* signOut settles. Signed out, the listener is called with null when a
\* user was signed in, and logout goes on to setUser(null) and
\* setUserProfile(null); a rejection leaves logout rejected.
LogoutSignOut(ok) ==
  /\ auth.signingOut
  /\ auth' = IF ok
             THEN [auth EXCEPT !.signingOut = FALSE, !.fbUser = NoUser,
                               !.user = NoUser, !.userProfile = NoProfile,
                               !.loading = IF auth.fbUser # NoUser THEN FALSE ELSE @]
             ELSE [auth EXCEPT !.signingOut = FALSE]
  /\ UNCHANGED << dbAvailable, storeVars, idVars, background, calls, viewVars,
                  feedVars, subs >>
  /\ UNCHANGED exceptAuth

\* ------------------------------------------------------ the document generator
\* Texts the gateway may return.
GeneratedTexts == {"docs A", "docs B"}

\* What a handleGenerate call leaves when it ends: the toast, and the flag
\* cleared by the finally block.
GenerateEnds(g, toast) ==
  [g EXCEPT !.pc = "idle", !.toast = toast, !.isGenerating = FALSE]

\* handleGenerate up to `await fetch("/api/gemini", ...)`. The button is
\* disabled while isGenerating. `valid`: the three required fields are
\* filled in; if not, a toast is shown and nothing is sent.
HandleGenerate(valid) ==
  /\ ~gen.isGenerating
  /\ gen.calls < MaxGenerations
  /\ gen' = IF valid
            THEN [gen EXCEPT !.isGenerating = TRUE, !.generatedDocs = "",
                             !.pc = "fetch", !.calls = @ + 1, !.requests = @ + 1]
            ELSE [gen EXCEPT !.toast = "Missing fields", !.calls = @ + 1]
  /\ UNCHANGED << dbAvailable, storeVars, idVars, background, calls, viewVars,
                  feedVars, subs >>
  /\ UNCHANGED exceptGen

\* A failed request sent again.
FetchSettlesRetry(ok) ==
  /\ gen.pc = "fetch"
  /\ gen' = IF ok THEN [gen EXCEPT !.pc = "json"]
            ELSE [gen EXCEPT !.requests = @ + 1]
  /\ UNCHANGED << dbAvailable, storeVars, idVars, background, calls, viewVars,
                  feedVars, subs >>
  /\ UNCHANGED exceptGen

\* fetch settles: a response, whose body is then read, or a rejection, which
\* the catch block turns into the toast "Generation failed".
FetchSettles(ok) ==
  /\ gen.pc = "fetch"
  /\ gen' = IF ok THEN [gen EXCEPT !.pc = "json"]
            ELSE GenerateEnds(gen, "Generation failed")
  /\ UNCHANGED << dbAvailable, storeVars, idVars, background, calls, viewVars,
                  feedVars, subs >>
  /\ UNCHANGED exceptGen

\* response.json() settles: {result} is shown, {error} is thrown into the
\* catch block, as is a body that is not JSON (`body` = "invalid").
JsonSettles(body) ==
  /\ gen.pc = "json"
  /\ gen' = IF body \in GeneratedTexts
            THEN [GenerateEnds(gen, "Documentation generated!")
                    EXCEPT !.generatedDocs = body]
            ELSE GenerateEnds(gen, "Generation failed")
  /\ UNCHANGED << dbAvailable, storeVars, idVars, background, calls, viewVars,
                  feedVars, subs >>
  /\ UNCHANGED exceptGen

\* ------------------------------------------------------------ the project view
\* getProject as called by the view, up to its await (see GetProject).
GetProjectFrame(p) ==
  IF getDb
  THEN [Idle EXCEPT !.op = "getProject", !.pc = "fetch", !.pid = p]
  ELSE Resolved([Idle EXCEPT !.op = "getProject", !.pid = p], Null)

\* The effect of ProjectPage with a signed-in user: mounted = true, and
\* loadProject up to `await getProject(projectId)`.
LoadProject(c, p) ==
  /\ page.pc = "start"
  /\ Free(c)
  /\ page' = [page EXCEPT !.pc = "getProject", !.mounted = TRUE,
                          !.projectId = p, !.call = c]
  /\ Settle(c, GetProjectFrame(p))
  /\ UNCHANGED << dbAvailable, storeVars, idVars, background, viewTasks,
                  numChanges, appVars, feedVars, subs >>

\* loadProject with every result of getProject taken for a project.
LoadProjectAnyResult(c) ==
  LET f == calls[c] IN
  /\ page.pc = "getProject" /\ page.call = c
  /\ f.op = "getProject" /\ f.pc = "resolved"
  /\ Settle(c, Idle)
  /\ page' = IF ~page.mounted THEN [page EXCEPT !.pc = "done"]
             ELSE [page EXCEPT !.project = page.projectId, !.loading = FALSE,
                               !.pc = "timer"]
  /\ UNCHANGED << dbAvailable, storeVars, idVars, background, viewTasks,
                  numChanges, appVars, feedVars, subs >>

\* loadProject recording "Project not found" without clearing loading.
LoadProjectKeepsLoading(c) ==
  LET f == calls[c] IN
  /\ page.pc = "getProject" /\ page.call = c
  /\ f.op = "getProject" /\ f.pc = "resolved"
  /\ Settle(c, Idle)
  /\ page' = IF ~page.mounted THEN [page EXCEPT !.pc = "done"]
             ELSE IF f.result = Null
             THEN [page EXCEPT !.error = "Project not found", !.pc = "done"]
             ELSE [page EXCEPT !.project = f.result, !.loading = FALSE,
                               !.memberIds = projects[f.result].members,
                               !.pc = IF projects[f.result].members # << >>
                                      THEN "members" ELSE "timer"]
  /\ UNCHANGED << dbAvailable, storeVars, idVars, background, viewTasks,
                  numChanges, appVars, feedVars, subs >>

\* getProject has resolved; loadProject goes on after the await. Unmounted
\* it returns. Without a project it records "Project not found" and returns.
\* With one it publishes it and clears loading, and awaits getProjectMembers
\* when the project has members.
LoadProjectAfterFetch(c) ==
  LET f == calls[c] IN
  /\ page.pc = "getProject" /\ page.call = c
  /\ f.op = "getProject" /\ f.pc = "resolved"
  /\ Settle(c, Idle)
  /\ page' = IF ~page.mounted THEN [page EXCEPT !.pc = "done"]
             ELSE IF f.result = Null
             THEN [page EXCEPT !.error = "Project not found", !.loading = FALSE,
                               !.pc = "done"]
             ELSE [page EXCEPT !.project = f.result, !.loading = FALSE,
                               !.memberIds = projects[f.result].members,
                               !.pc = IF projects[f.result].members # << >>
                                      THEN "members" ELSE "timer"]
  /\ UNCHANGED << dbAvailable, storeVars, idVars, background, viewTasks,
                  numChanges, appVars, feedVars, subs >>

\* getProjectMembers has resolved (it never rejects) with the user
\* documents it could read, all of them or none: if (mounted)
\* setMembers(projectMembers); setTimeout(..., 300) is called.
LoadMembers(found) ==
  /\ page.pc = "members"
  /\ page' = [page EXCEPT !.pc = "timer",
                          !.members = IF ~page.mounted THEN @
                                      ELSE IF found THEN page.memberIds ELSE << >>]
  /\ UNCHANGED << dbAvailable, storeVars, idVars, background, calls, viewTasks,
                  numChanges, appVars, feedVars, subs >>

\* A subscription of the view as subscribeTo* leaves it: open, or without a
\* database closed after one call of the callback with the empty value.
PageSubscribe(kind, p) ==
  IF getDb
  THEN [NoSub EXCEPT !.kind = kind, !.state = "open", !.pid = p]
  ELSE Callback([NoSub EXCEPT !.kind = kind, !.state = "noop", !.pid = p],
                << >>, "unavailable")

\* The updateTask writes of the view that the store has not settled, and
\* the last of them issued for a task.
PendingUpdates(t) ==
  { c \in CallIds : /\ calls[c].op = "handleUpdateTaskStatus"
                    /\ calls[c].pc = "updateTask" /\ calls[c].tid = t }

LastPendingUpdate(t) ==
  CHOOSE c \in PendingUpdates(t) : \A x \in PendingUpdates(t) : calls[x].seq <= calls[c].seq

\* The status of a task the local cache shows: that of the last pending
\* update, else the document's, else that of the addTask or createTask call
\* whose write is pending.
StatusShown(t) ==
  IF PendingUpdates(t) # {} /\ getDb THEN calls[LastPendingUpdate(t)].status
  ELSE IF tasks[t].exists THEN tasks[t].status
  ELSE LET c == CHOOSE x \in CallIds :
                  \/ calls[x].op = "addTask" /\ calls[x].tid = t
                  \/ calls[x].op = "createTask" /\ calls[x].result = t
       IN calls[c].status

\* A task document as the local cache shows it: with the pending updates of
\* this client applied, last_updated reading null while one is pending.
LocalTask(d) ==
  [id |-> d.id, project_id |-> d.project_id, user_id |-> d.user_id,
   time |-> IF PendingUpdates(d.id) # {} /\ getDb THEN Null ELSE d.time,
   status |-> StatusShown(d.id)]

\* What the stream of a subscription of the view holds now.
PageDocs(kind, p) ==
  IF kind = "project"
  THEN IF projects[p].exists THEN << projects[p] >> ELSE << >>
  ELSE IF kind = "tasks"
  THEN LET docs == QueryDocs(kind, p, "")
       IN [i \in DOMAIN docs |-> LocalTask(docs[i])]
  ELSE QueryDocs(kind, p, "")

\* What subscribeTo* hands to the callback for these documents.
PageValue(kind, docs, now) ==
  IF kind = "project" THEN docs ELSE Deliver(kind, docs, now)

\* A subscription of the view after its stream has delivered what it holds.
PageSubscribed(kind, p, now) ==
  Callback([PageSubscribe(kind, p) EXCEPT !.seen = PageDocs(kind, p),
                                          !.fired = TRUE],
           PageValue(kind, PageDocs(kind, p), now), "snapshot")

\* (m) => { if (mounted) setMessages(m) }
SetMessages(value) == [i \in DOMAIN value |-> value[i].id]

\* (t) => { if (mounted) setTasks(t) }
SetTasks(value) ==
  [i \in DOMAIN value |-> [task_id |-> value[i].id, status |-> value[i].status]]

\* A stream of the view delivers a snapshot, the first or one after a
\* change, and the view's callback runs: the project is kept when the
\* snapshot has none, the task list is replaced.
PageSnapshot(kind, now) ==
  LET sub == page.subs[kind]
      docs == PageDocs(kind, sub.pid)
      value == PageValue(kind, docs, now)
  IN
  /\ sub.kind = kind /\ sub.state = "open"
  /\ ~sub.fired \/ docs # sub.seen
  /\ page' = [page EXCEPT
       !.subs[kind] = Callback([sub EXCEPT !.seen = docs, !.fired = TRUE],
                               value, "snapshot"),
       !.project = IF kind = "project" /\ page.mounted /\ docs # << >>
                   THEN sub.pid ELSE @,
       !.messages = IF kind = "messages" /\ page.mounted
                    THEN SetMessages(value) ELSE @]
  /\ viewTasks' = IF kind = "tasks" /\ page.mounted THEN SetTasks(value)
                  ELSE viewTasks
  /\ UNCHANGED << dbAvailable, storeVars, idVars, background, calls,
                  numChanges, appVars, feedVars, subs >>

\* A stream of the view fails: subscribeTo* calls the callback with the empty
\* value (null for the project), and the stream delivers nothing further.
PageStreamError(kind) ==
  LET sub == page.subs[kind] IN
  /\ sub.kind = kind /\ sub.state = "open"
  /\ page' = [page EXCEPT
       !.subs[kind] = Callback([sub EXCEPT !.state = "errored"], << >>, "error"),
       !.messages = IF kind = "messages" /\ page.mounted THEN << >> ELSE @]
  /\ viewTasks' = IF kind = "tasks" /\ page.mounted THEN << >> ELSE viewTasks
  /\ UNCHANGED << dbAvailable, storeVars, idVars, background, calls,
                  numChanges, appVars, feedVars, subs >>

\* handleAddTask up to `await addTask({ project_id: projectId, ...,
\* status: "ToDo" })`.
HandleAddTask(c) ==
  /\ page.project # Null
  /\ AddTask(c, page.projectId, "ToDo")

\* handleAddTask after the await: if (newTask) setTasks((prev) => [...prev,
\* newTask]); the dialog is closed and "Task added!" shown.
HandleAddTaskAfter(c) ==
  LET f == calls[c] IN
  /\ f.op = "addTask" /\ f.pc = "resolved"
  /\ viewTasks' = IF f.result = Null THEN viewTasks
                  ELSE Append(viewTasks, [task_id |-> f.result, status |-> f.status])
  /\ Settle(c, Idle)
  /\ UNCHANGED << dbAvailable, storeVars, idVars, background, numChanges, page,
                  appVars, feedVars, subs >>

\* The timer callback subscribing whether the view is mounted or not.
OpenSubscriptionsUnmounted ==
  /\ page.pc = "timer"
  /\ page' = [page EXCEPT !.pc = "done",
                          !.subs = [k \in PageKinds |->
                                      PageSubscribe(k, page.projectId)],
                          !.messages = IF getDb \/ ~page.mounted THEN @ ELSE << >>]
  /\ viewTasks' = IF page.mounted /\ ~getDb THEN << >> ELSE viewTasks
  /\ UNCHANGED << dbAvailable, storeVars, idVars, background, calls,
                  numChanges, appVars, feedVars, subs >>

\* The timer callback: unmounted it returns; mounted it calls
\* subscribeToProject, subscribeToTasks and subscribeToMessages. The
\* callbacks are (p) => { if (mounted && p) setProject(p) } and
\* (t) => { if (mounted) setTasks(t) }, and the same with setMessages (the
\* view's messages are the last value of that subscription).
OpenSubscriptions ==
  /\ page.pc = "timer"
  /\ page' = IF page.mounted
             THEN [page EXCEPT !.pc = "done",
                               !.subs = [k \in PageKinds |->
                                           PageSubscribe(k, page.projectId)],
                               !.messages = IF getDb THEN @ ELSE << >>]
             ELSE [page EXCEPT !.pc = "done"]
  /\ viewTasks' = IF page.mounted /\ ~getDb THEN << >> ELSE viewTasks
  /\ UNCHANGED << dbAvailable, storeVars, idVars, background, calls,
                  numChanges, appVars, feedVars, subs >>

\* The cleanup of the effect: mounted = false. The function the timer
\* callback returns is not the effect's cleanup: the subscriptions stay.
Unmount ==
  /\ page.mounted
  /\ page' = [page EXCEPT !.mounted = FALSE]
  /\ UNCHANGED << dbAvailable, storeVars, idVars, background, calls, viewTasks,
                  numChanges, appVars, feedVars, subs >>

\* ------------------------------------------- the field data of the writes
\* A JavaScript object is a function from its own keys to values; a key may
\* be present with the value undefined. The values are strings.
Undefined == "undefined"
ServerTimestamp == "serverTimestamp()"

\* o[k]: undefined for a key the object does not have.
Get(o, k) == IF k \in DOMAIN o THEN o[k] ELSE Undefined

\* { ...a, ...b } with the keys of a kept over those of b.
SpreadFirstWins(a, b) ==
  [k \in DOMAIN a \cup DOMAIN b |-> IF k \in DOMAIN a THEN a[k] ELSE b[k]]

\* { ...a, ...b }: the keys of both, b's value where both have the key.
Spread(a, b) ==
  [k \in DOMAIN a \cup DOMAIN b |-> IF k \in DOMAIN b THEN b[k] ELSE a[k]]

\* Object.fromEntries(Object.entries(o).filter(([_, value]) => value !== undefined))
FilterUndefined(o) ==
  [k \in { j \in DOMAIN o : o[j] # Undefined } |-> o[k]]

createTaskData(task) ==
  FilterUndefined(Spread(task, ("task_id" :> "taskRef.id")
                               @@ ("last_updated" :> ServerTimestamp)))

\* taskData of addTask: no filter; `task.priority || "Medium"`; due_date
\* assigned again when the argument has a defined one.
addTaskData(task) ==
  LET taskData ==
        Spread(task,
               ("task_id" :> "taskRef.id")
               @@ ("last_updated" :> ServerTimestamp)
               @@ ("created_at" :> ServerTimestamp)
               @@ ("priority" :> IF Get(task, "priority") # Undefined
                                 THEN Get(task, "priority") ELSE "Medium")
               @@ ("time_spent" :> "0")
               @@ ("dependencies" :> "[]")
               @@ ("tags" :> "[]"))
  IN IF Get(task, "due_date") # Undefined
     THEN Spread(taskData, "due_date" :> Get(task, "due_date"))
     ELSE taskData

\* One cleanTask for each task of the argument, in its order.
createTasksData(taskList) ==
  [i \in DOMAIN taskList |->
     FilterUndefined(Spread(taskList[i], ("task_id" :> "taskRef.id")
                                         @@ ("last_updated" :> ServerTimestamp)))]

updateTaskData(updates) ==
  FilterUndefined(Spread(updates, "last_updated" :> ServerTimestamp))

sendMessageData(message) ==
  Spread(message, ("message_id" :> "msgRef.id") @@ ("timestamp" :> ServerTimestamp))

createMilestoneData(milestone) ==
  Spread(milestone, ("milestone_id" :> "milestoneRef.id")
                    @@ ("created_at" :> ServerTimestamp))

\* updateDoc(doc(db, "milestones", milestoneId), updates)
updateMilestoneData(updates) == updates

createScheduleEventData(event) ==
  Spread(event, ("event_id" :> "eventRef.id")
                @@ ("start_time" :> Get(event, "start_time"))
                @@ ("end_time" :> Get(event, "end_time"))
                @@ ("created_at" :> ServerTimestamp))

\* updateDoc(doc(db, "schedule_events", eventId), updates)
updateScheduleEventData(updates) == updates

\* updateDoc(doc(db, "projects", projectId), urls)
updateProjectUrlsData(urls) == urls

saveWellnessSettingsData(settings) ==
  Spread(settings, "created_at" :> ServerTimestamp)

uploadResourceData(resource) ==
  FilterUndefined(Spread(resource, ("resource_id" :> "resourceRef.id")
                                   @@ ("created_at" :> ServerTimestamp)))

addActivityData(activity) ==
  FilterUndefined(Spread(activity, ("activity_id" :> "activityRef.id")
                                   @@ ("timestamp" :> ServerTimestamp)))

createNotificationData(notification) ==
  FilterUndefined(Spread(notification, ("notification_id" :> "notificationRef.id")
                                       @@ ("created_at" :> ServerTimestamp)))

\* The write operations that take an object, and for each the fields of its
\* argument that the caller may leave out or pass as undefined (with
\* last_updated, which Partial<Task> admits and a cast can add); every other
\* field of the argument has a value and is left out of the model, except
\* the times of a schedule event, which the operation names itself.
WriteOps ==
  {"createTask", "addTask", "createTasks", "updateTask", "sendMessage",
   "createMilestone", "updateMilestone", "createScheduleEvent",
   "updateScheduleEvent", "updateProjectUrls", "saveWellnessSettings",
   "uploadResource", "addActivity", "createNotification"}

TaskWriteOps == {"createTask", "addTask", "createTasks", "updateTask"}

OpenFields(op) ==
  CASE op \in TaskWriteOps -> {"due_date", "priority", "last_updated"}
    [] op = "sendMessage" -> {}
    [] op = "createMilestone" -> {}
    [] op = "updateMilestone" -> {"description", "status"}
    [] op = "createScheduleEvent" -> {"description", "reminder_minutes"}
    [] op = "updateScheduleEvent" -> {"description", "reminder_minutes"}
    [] op = "updateProjectUrls" -> {"github_repo", "demo_url", "pitch_deck_url"}
    [] op = "saveWellnessSettings" -> {}
    [] op = "uploadResource" -> {"url", "content"}
    [] op = "addActivity" -> {"metadata"}
    [] op = "createNotification" -> {"action_url"}

\* The fields of the argument that always have a value.
SetFields(op) ==
  CASE op = "createScheduleEvent" -> ("start_time" :> "v") @@ ("end_time" :> "v")
    [] op \in {"createTask", "addTask", "createTasks"} -> "status" :> "ToDo"
    [] op = "sendMessage" -> "content" :> "v"
    [] op = "createMilestone" -> "name" :> "v"
    [] op = "saveWellnessSettings" -> "break_duration" :> "v"
    [] OTHER -> << >>

\* The arguments: each open field left out, undefined, or with a value.
Objects(op) ==
  { Spread(SetFields(op), o) :
      o \in UNION { [S -> {Undefined, "v"}] : S \in SUBSET OpenFields(op) } }

Arguments(op) ==
  IF op = "createTasks"
  THEN UNION { [1..n -> Objects(op)] : n \in 1..MaxBatch }
  ELSE [1..1 -> Objects(op)]

\* The object(s) the operation hands to setDoc, updateDoc or batch.set.
DataOf(op, args) ==
  CASE op = "createTask" -> << createTaskData(args[1]) >>
    [] op = "addTask" -> << addTaskData(args[1]) >>
    [] op = "createTasks" -> createTasksData(args)
    [] op = "updateTask" -> << updateTaskData(args[1]) >>
    [] op = "sendMessage" -> << sendMessageData(args[1]) >>
    [] op = "createMilestone" -> << createMilestoneData(args[1]) >>
    [] op = "updateMilestone" -> << updateMilestoneData(args[1]) >>
    [] op = "createScheduleEvent" -> << createScheduleEventData(args[1]) >>
    [] op = "updateScheduleEvent" -> << updateScheduleEventData(args[1]) >>
    [] op = "updateProjectUrls" -> << updateProjectUrlsData(args[1]) >>
    [] op = "saveWellnessSettings" -> << saveWellnessSettingsData(args[1]) >>
    [] op = "uploadResource" -> << uploadResourceData(args[1]) >>
    [] op = "addActivity" -> << addActivityData(args[1]) >>
    [] op = "createNotification" -> << createNotificationData(args[1]) >>

\* A write operation is called with a database handle and reaches its
\* setDoc, updateDoc or batch.set call(s).
Write(op, args) ==
  /\ getDb
  /\ wire.op = "none"
  /\ wire' = [op |-> op, inputs |-> args, payloads |-> DataOf(op, args)]
  /\ UNCHANGED << dbAvailable, storeVars, idVars, background, calls,
                  viewVars, feedVars, subs >>
  /\ UNCHANGED exceptWire

\* The call is over; the next one can be made.
WriteReturns ==
  /\ wire.op # "none"
  /\ wire' = NoWire
  /\ UNCHANGED << dbAvailable, storeVars, idVars, background, calls,
                  viewVars, feedVars, subs >>
  /\ UNCHANGED exceptWire

\* -------------------------------------------------------- wellness settings
Settings == {"settings A", "settings B"}

\* `${settings.project_id}_${settings.user_id}`
SettingsKey(p, u) == << p, u >>

\* setDoc(ref, data) without merge: the document of that id is replaced.
SetSettingsDoc(docs, id, p, u, s) ==
  { d \in docs : d.id # id }
    \cup {[id |-> id, project_id |-> p, user_id |-> u, settings |-> s,
           created_at |-> clock + 1]}

\* saveWellnessSettings writing under a fresh id, doc(collection(db, ...)).
SaveWellnessSettingsNewDoc(p, u, s, ok) ==
  LET call == [op |-> "saveWellnessSettings", project_id |-> p, user_id |-> u,
               result |-> NoSettings]
  IN
  /\ clock < MaxWrites
  /\ IF getDb /\ ok
     THEN /\ wellness' = [wellness EXCEPT
                 !.docs = SetSettingsDoc(@, << p, u, clock + 1 >>, p, u, s),
                 !.saved[SettingsKey(p, u)] = s,
                 !.call = call @@ [outcome |-> "resolved"]]
          /\ clock' = clock + 1
     ELSE /\ wellness' = [wellness EXCEPT !.call = call @@ [outcome |-> "rejected"]]
          /\ UNCHANGED clock
  /\ UNCHANGED << dbAvailable, projects, roles, tasks, messages, milestones,
                  idVars, background, calls, viewVars, feedVars, subs >>
  /\ UNCHANGED exceptWellness

\* saveWellnessSettings: getDb() throws without a handle; setDoc writes the
\* document keyed by project and user with a server timestamp, or fails and
\* the promise rejects.
SaveWellnessSettings(p, u, s, ok) ==
  LET call == [op |-> "saveWellnessSettings", project_id |-> p, user_id |-> u,
               result |-> NoSettings]
  IN
  /\ clock < MaxWrites
  /\ IF getDb /\ ok
     THEN /\ wellness' = [wellness EXCEPT
                 !.docs = SetSettingsDoc(@, SettingsKey(p, u), p, u, s),
                 !.saved[SettingsKey(p, u)] = s,
                 !.call = call @@ [outcome |-> "resolved"]]
          /\ clock' = clock + 1
     ELSE /\ wellness' = [wellness EXCEPT !.call = call @@ [outcome |-> "rejected"]]
          /\ UNCHANGED clock
  /\ UNCHANGED << dbAvailable, projects, roles, tasks, messages, milestones,
                  idVars, background, calls, viewVars, feedVars, subs >>
  /\ UNCHANGED exceptWellness

\* getWellnessSettings: null when the document does not exist, its data when
\* it does; a missing handle or a failed getDoc is caught and gives null.
GetWellnessSettings(p, u, ok) ==
  LET found == { d \in wellness.docs : d.id = SettingsKey(p, u) }
      call == [op |-> "getWellnessSettings", project_id |-> p, user_id |-> u,
               outcome |-> IF getDb /\ ok THEN "resolved" ELSE "caught"]
  IN
  /\ wellness' = [wellness EXCEPT !.call =
        call @@ [result |-> IF getDb /\ ok /\ found # {}
                            THEN (CHOOSE d \in found : TRUE).settings
                            ELSE NoSettings]]
  /\ UNCHANGED << dbAvailable, storeVars, idVars, background, calls,
                  viewVars, feedVars, subs >>
  /\ UNCHANGED exceptWellness

\* ------------------------------------------------------------ specifications
\* Membership: createProject, joinProjectByCode and removeMemberFromProject
\* in any interleaving, with any users as arguments.
Next ==
  \/ /\ Quiet
     /\ \/ \E c \in CallIds, u \in Users, draws \in DrawSeqs :
          CreateProject(c, u, "24h", draws)
        \/ \E c \in CallIds : CreateProjectSetDoc(c)
        \/ \E b \in background, ok \in BOOLEAN : BackgroundRole(b, ok)
        \/ \E c \in CallIds, code \in JoinCodes, u \in Users : JoinProjectByCode(c, code, u)
        \/ \E c \in CallIds : JoinLookupSettles(c)
        \/ \E c \in CallIds : JoinLookupFails(c)
        \/ \E c \in CallIds : JoinLookupTimesOut(c)
        \/ \E c \in CallIds : JoinCommit(c)
        \/ \E c \in CallIds, p \in ProjectIds, u \in Users : RemoveMemberFromProject(c, p, u)
        \/ \E c \in CallIds : RemoveGetDoc(c)
        \/ \E c \in CallIds : RemoveCommit(c)
        \/ Tick
  \/ \E b \in background : BackgroundMilestones(b, TRUE)
  \/ \E c \in CallIds : Return(c)

Spec == Init /\ [][Next]_vars

\* Deletion: deleteProject against createTask and sendMessage, on projects
\* created by one user with one code.
NextDelete ==
  \/ /\ Quiet
     /\ \/ \E c \in CallIds : CreateProject(c, "u1", "24h", CHOOSE d \in DrawSeqs : TRUE)
        \/ \E c \in CallIds : CreateProjectSetDoc(c)
        \/ \E b \in background : BackgroundRole(b, TRUE)
        \/ \E c \in CallIds, p \in ProjectIds : CreateTask(c, p, "ToDo")
        \/ \E c \in CallIds : CreateTaskSetDoc(c)
        \/ \E c \in CallIds, p \in ProjectIds : SendMessage(c, p)
        \/ \E c \in CallIds : SendMessageSetDoc(c)
        \/ \E c \in CallIds, p \in ProjectIds : DeleteProject(c, p)
        \/ \E c \in CallIds : DeleteTasksQuery(c)
        \/ \E c \in CallIds : DeleteMessagesQuery(c)
        \/ \E c \in CallIds : DeleteCommit(c)
  \/ \E b \in background : BackgroundMilestones(b, TRUE)
  \/ \E c \in CallIds : Return(c)

SpecDelete == Init /\ [][NextDelete]_vars

\* Bounded reads: getProject, getUserProjects and joinProjectByCode against
\* a store that answers, fails or stays silent. The event loop runs a due
\* timer, and time passes while a timer is pending.
NextFetch ==
  \/ /\ Quiet
     /\ \/ \E c \in CallIds, u \in Users :
          CreateProject(c, u, "24h", CHOOSE d \in DrawSeqs : TRUE)
        \/ \E c \in CallIds : CreateProjectSetDoc(c)
        \/ \E b \in background : BackgroundRole(b, TRUE)
        \/ \E c \in CallIds, p \in ProjectIds : GetProject(c, p)
        \/ \E c \in CallIds : GetProjectSettles(c)
        \/ \E c \in CallIds : GetProjectFails(c)
        \/ \E c \in CallIds : GetProjectTimesOut(c)
        \/ \E c \in CallIds, u \in Users : GetUserProjects(c, u)
        \/ \E c \in CallIds : GetUserProjectsSettles(c)
        \/ \E c \in CallIds : GetUserProjectsFails(c)
        \/ \E c \in CallIds : GetUserProjectsTimesOut(c)
        \/ \E c \in CallIds, code \in JoinCodes, u \in Users : JoinProjectByCode(c, code, u)
        \/ \E c \in CallIds : JoinLookupSettles(c)
        \/ \E c \in CallIds : JoinLookupFails(c)
        \/ \E c \in CallIds : JoinLookupTimesOut(c)
        \/ \E c \in CallIds : JoinCommit(c)
        \/ Tick
  \/ \E b \in background : BackgroundMilestones(b, TRUE)
  \/ \E c \in CallIds : Return(c)

SpecFetch ==
  /\ Init
  /\ [][NextFetch]_vars
  /\ WF_vars(Tick)
  /\ \A c \in CallIds :
       /\ WF_vars(GetProjectTimesOut(c))
       /\ WF_vars(GetUserProjectsTimesOut(c))
       /\ WF_vars(JoinLookupTimesOut(c))
       /\ WF_vars(Return(c))

\* The project view with its task list loaded: the project exists, every
\* task id holds a new task of it (status ToDo), and the view has the list
\* of a snapshot (latest last_updated first).
InitView ==
  /\ dbAvailable = TRUE
  /\ projects = [p \in ProjectIds |->
                   IF p = 1 THEN NewProject("u1", "24h", generateJoinCode(CHOOSE d \in DrawSeqs : TRUE), 1)
                   ELSE NoProject]
  /\ roles = [k \in RoleKeys |-> IF k = << 1, "u1" >> THEN "admin" ELSE "none"]
  /\ tasks = [t \in TaskIds |->
                [exists |-> TRUE, project_id |-> 1, status |-> "ToDo",
                 last_updated |-> 1 + t]]
  /\ viewTasks = [i \in 1..MaxTasks |->
                    [task_id |-> MaxTasks + 1 - i, status |-> "ToDo"]]
  /\ messages = [m \in MessageIds |-> NoMessage]
  /\ milestones = DefaultMilestones(1, "24h", 1, << 0 - 1, 0 - 2, 0 - 3 >>)
  /\ clock = 1 + MaxTasks
  /\ numProjects = 1
  /\ numTasks = MaxTasks
  /\ numMessages = 0
  /\ background = {}
  /\ calls = [c \in CallIds |-> Idle]
  /\ numChanges = 0
  /\ page = [NoPage EXCEPT !.pc = "done", !.mounted = TRUE, !.projectId = 1,
                           !.project = 1, !.loading = FALSE,
                           !.memberIds = << "u1" >>, !.members = << "u1" >>,
                           !.subs = [k \in PageKinds |-> PageSubscribed(k, 1, clock)]]
  /\ scheduleEvents = {}
  /\ resources = {}
  /\ activities = {}
  /\ notifications = {}
  /\ users = [u \in Users |-> 0]
  /\ numDocs = 3
  /\ subs = [s \in SubIds |-> NoSub]
  /\ InitApp

\* Status changes from the view, at most MaxCalls of them in flight.
NextView ==
  \/ /\ Quiet
     /\ \/ \E c \in CallIds, t \in TaskIds, st \in Statuses :
             HandleUpdateTaskStatus(c, t, st)
        \/ \E c \in CallIds : UpdateTaskSettles(c)
        \/ \E c \in CallIds : UpdateTaskFails(c)
  \/ \E c \in CallIds : Return(c)

SpecView == InitView /\ [][NextView]_vars

\* Subscriptions. A subscription reads one collection only, so a behaviour
\* keeps to the collection of its subscription: the other collections stay
\* empty. Documents carry the watched project or another one, and either
\* user.
FeedProjects == 1..(MaxProjects + 1)
FeedTimes == 1..2

Touched ==
  { k \in ListKinds \cup {"project", "members"} :
      \/ k = "tasks" /\ numTasks > 0
      \/ k = "messages" /\ numMessages > 0
      \/ k = "milestones" /\ milestones # {}
      \/ k = "project" /\ numProjects > 0
      \/ k = "scheduleEvents" /\ scheduleEvents # {}
      \/ k = "resources" /\ resources # {}
      \/ k = "activities" /\ activities # {}
      \/ k = "notifications" /\ notifications # {}
      \/ k = "members" /\ \E u \in Users : users[u] # 0 }

\* createProject writes milestones too.
Reads(kind) ==
  IF kind = "project" THEN {"project", "milestones"} ELSE {kind}

Focus(kind) ==
  /\ \A s \in SubIds : subs[s].kind \in {"none", kind}
  /\ Touched \subseteq Reads(kind)

NextSub ==
  \/ \E s \in SubIds, kind \in ListKinds, p \in ProjectIds, u \in Users :
       Focus(kind) /\ SubscribeToList(s, kind, p, u)
  \/ \E s \in SubIds, now \in DateNow : ListSnapshot(s, now)
  \/ \E s \in SubIds : ListStreamError(s)
  \/ \E s \in SubIds, p \in ProjectIds : Focus("project") /\ SubscribeToProject(s, p)
  \/ \E s \in SubIds, now \in DateNow : ProjectSnapshot(s, now)
  \/ \E s \in SubIds : ProjectStreamError(s)
  \/ \E s \in SubIds, ids \in MemberIdLists :
       Focus("members") /\ SubscribeToProjectMembers(s, ids)
  \/ \E s \in SubIds, i \in 1..2 : MemberSnapshot(s, i)
  \/ \E s \in SubIds, i \in 1..2 : MemberStreamError(s, i)
  \/ \E u \in Users : Focus("members") /\ SetUserDoc(u)
  \/ \E c \in CallIds, p \in FeedProjects : Focus("tasks") /\ CreateTask(c, p, "ToDo")
  \/ \E c \in CallIds : CreateTaskSetDoc(c)
  \/ \E c \in CallIds, p \in FeedProjects : Focus("messages") /\ SendMessage(c, p)
  \/ \E c \in CallIds : SendMessageSetDoc(c)
  \/ \E p \in FeedProjects, t \in FeedTimes, low \in BOOLEAN :
       Focus("milestones") /\ numDocs < MaxDocs /\ CreateMilestone(p, t, low)
  \/ \E c \in CallIds :
       Focus("project")
         /\ CreateProject(c, "u1", "24h", CHOOSE d \in DrawSeqs : TRUE)
  \/ \E c \in CallIds : CreateProjectSetDoc(c)
  \/ \E b \in background : BackgroundRole(b, TRUE)
  \/ \E b \in background, ok \in BOOLEAN : BackgroundMilestones(b, ok)
  \/ \E p \in FeedProjects, u \in Users, t \in FeedTimes, low \in BOOLEAN :
       Focus("scheduleEvents") /\ numDocs < MaxDocs /\ CreateScheduleEvent(p, u, t, low)
  \/ \E p \in FeedProjects, low \in BOOLEAN :
       Focus("resources") /\ numDocs < MaxDocs /\ UploadResource(p, low)
  \/ \E p \in FeedProjects, low \in BOOLEAN :
       Focus("activities") /\ numDocs < MaxDocs /\ AddActivity(p, low)
  \/ \E p \in FeedProjects, u \in Users, low \in BOOLEAN :
       Focus("notifications") /\ numDocs < MaxDocs /\ CreateNotification(p, u, low)
  \/ \E c \in CallIds : Return(c)

SpecSub == Init /\ [][NextSub]_vars

\* The activity feed with more activities than one delivery holds. The first
\* FreeIdDraws activities are of either project with either id draw; the
\* later ones are of project 1 and their ids fall in turn below and above
\* the ids there are, so that the documents' id order is not their time
\* order. Activities are added no faster than the subscription is served:
\* a snapshot that is due is delivered before the next activity is written.
NextFeed ==
  \/ \E s \in SubIds, p \in ProjectIds : SubscribeToList(s, "activities", p, "u1")
  \/ \E s \in SubIds, now \in DateNow : ListSnapshot(s, now)
  \/ \E p \in FeedProjects, low \in BOOLEAN :
       /\ numDocs < MaxActivities
       /\ numDocs >= FreeIdDraws => (p = 1 /\ low = (numDocs % 2 = 0))
       /\ \A s \in SubIds : ~SnapshotDue(s)
       /\ AddActivity(p, low)

SpecFeed == Init /\ [][NextFeed]_vars

\* Removal: removeMemberFromProject against joinProjectByCode and
\* deleteProject. A caller holds the id of a project only after the
\* createProject that drew it returned.
Known(p) ==
  /\ p <= numProjects
  /\ \A c \in CallIds : ~(calls[c].op = "createProject" /\ calls[c].pid = p)

NextRemove ==
  \/ /\ Quiet
     /\ \/ \E c \in CallIds : CreateProject(c, "u1", "24h", CHOOSE d \in DrawSeqs : TRUE)
        \/ \E c \in CallIds : CreateProjectSetDoc(c)
        \/ \E b \in background : BackgroundRole(b, TRUE)
        \/ \E c \in CallIds, code \in JoinCodes, u \in Users : JoinProjectByCode(c, code, u)
        \/ \E c \in CallIds : JoinLookupSettles(c)
        \/ \E c \in CallIds : JoinCommit(c)
        \/ \E c \in CallIds, p \in ProjectIds, u \in Users :
             Known(p) /\ RemoveMemberFromProject(c, p, u)
        \/ \E c \in CallIds : RemoveGetDoc(c)
        \/ \E c \in CallIds : RemoveCommit(c)
        \/ \E c \in CallIds, p \in ProjectIds : Known(p) /\ DeleteProject(c, p)
        \/ \E c \in CallIds : DeleteTasksQuery(c)
        \/ \E c \in CallIds : DeleteMessagesQuery(c)
        \/ \E c \in CallIds : DeleteCommit(c)
  \/ \E b \in background : BackgroundMilestones(b, TRUE)
  \/ \E c \in CallIds : Return(c)

SpecRemove == Init /\ [][NextRemove]_vars

\* Creation: createProject by either user with either duration, and the two
\* background writes it starts, each committed or failed by the store at any
\* time after the primary write.
NextCreate ==
  \/ \E c \in CallIds, u \in Users, d \in Durations, draws \in DrawSeqs :
       CreateProject(c, u, d, draws)
  \/ \E c \in CallIds : CreateProjectSetDoc(c)
  \/ \E b \in background, ok \in BOOLEAN : BackgroundRole(b, ok)
  \/ \E b \in background, ok \in BOOLEAN : BackgroundMilestones(b, ok)
  \/ \E c \in CallIds : Return(c)

SpecCreate == Init /\ [][NextCreate]_vars

\* Primary writes: every operation that writes a project, task or message
\* document, each write committed or failed by the store. updateTask is
\* called while the store has given fewer than MaxWrites timestamps.
NextWrite ==
  \/ /\ Quiet
     /\ \/ \E c \in CallIds : CreateProject(c, "u1", "24h", CHOOSE d \in DrawSeqs : TRUE)
        \/ \E c \in CallIds : CreateProjectSetDoc(c)
        \/ \E b \in background : BackgroundRole(b, TRUE)
        \/ \E c \in CallIds, p \in ProjectIds : CreateTask(c, p, "ToDo")
        \/ \E c \in CallIds : CreateTaskSetDoc(c)
        \/ \E c \in CallIds, p \in ProjectIds : AddTask(c, p, "ToDo")
        \/ \E c \in CallIds : AddTaskSetDoc(c)
        \/ \E c \in CallIds, p \in ProjectIds, n \in 1..MaxTasks : CreateTasks(c, p, n)
        \/ \E c \in CallIds : CreateTasksCommit(c)
        \/ \E c \in CallIds, t \in TaskIds, st \in Statuses :
             clock < MaxWrites /\ UpdateTask(c, t, st)
        \/ \E c \in CallIds : UpdateTaskUpdateDoc(c)
        \/ \E c \in CallIds, p \in ProjectIds : SendMessage(c, p)
        \/ \E c \in CallIds : SendMessageSetDoc(c)
  \/ \E b \in background : BackgroundMilestones(b, TRUE)
  \/ \E c \in CallIds : Return(c)

SpecWrite == Init /\ [][NextWrite]_vars

\* No database handle: getFirebaseDb() returned nothing, and every call of
\* the layer is made in that state.
InitUnavailable == Init /\ dbAvailable = FALSE

NextUnavailable ==
  \/ \E c \in CallIds, u \in Users, d \in Durations, draws \in DrawSeqs :
       CreateProject(c, u, d, draws)
  \/ \E c \in CallIds, code \in JoinCodes, u \in Users : JoinProjectByCode(c, code, u)
  \/ \E c \in CallIds, p \in ProjectIds, u \in Users : RemoveMemberFromProject(c, p, u)
  \/ \E c \in CallIds, p \in ProjectIds : DeleteProject(c, p)
  \/ \E c \in CallIds, p \in ProjectIds : CreateTask(c, p, "ToDo")
  \/ \E c \in CallIds, p \in ProjectIds : AddTask(c, p, "ToDo")
  \/ \E c \in CallIds, p \in ProjectIds, n \in 1..MaxTasks : CreateTasks(c, p, n)
  \/ \E c \in CallIds, t \in TaskIds, st \in Statuses : UpdateTask(c, t, st)
  \/ \E c \in CallIds, p \in ProjectIds : SendMessage(c, p)
  \/ \E c \in CallIds, p \in ProjectIds : GetProject(c, p)
  \/ \E c \in CallIds, u \in Users : GetUserProjects(c, u)
  \/ \E s \in SubIds, kind \in ListKinds, p \in ProjectIds, u \in Users :
       SubscribeToList(s, kind, p, u)
  \/ \E s \in SubIds, p \in ProjectIds : SubscribeToProject(s, p)
  \/ \E s \in SubIds, memberIds \in MemberIdLists : SubscribeToProjectMembers(s, memberIds)
  \/ \E c \in CallIds : Return(c)

SpecUnavailable == InitUnavailable /\ [][NextUnavailable]_vars

\* Cancellation: the subscriptions of SpecSub, each cancelled at any time by
\* its caller, while the writes go on.
NextCancel ==
  \/ NextSub
  \/ \E s \in SubIds : Unsubscribe(s)

SpecCancel == Init /\ [][NextCancel]_vars

\* The identity adapter: sign-ins and sign-outs reported by the auth
\* service, the profile lookups they start, logout, and profile documents
\* written by createUserProfile.
NextAuth ==
  \/ \E u \in Users \cup {NoUser} : AuthStateChanged(u)
  \/ \E l \in auth.lookups, ok \in BOOLEAN : ProfileLookup(l, ok)
  \/ \E ok \in BOOLEAN : Logout(ok)
  \/ \E ok \in BOOLEAN : LogoutSignOut(ok)
  \/ \E u \in Users : SetUserDoc(u)

SpecAuth == Init /\ [][NextAuth]_vars

\* The document generator: clicks on the button, with and without the
\* required fields, and a gateway that answers with a text, with an error,
\* with a body that is not JSON, or not at all.
NextGenerate ==
  \/ \E valid \in BOOLEAN : HandleGenerate(valid)
  \/ \E ok \in BOOLEAN : FetchSettles(ok)
  \/ \E body \in GeneratedTexts \cup {"error", "invalid"} : JsonSettles(body)

SpecGenerate == Init /\ [][NextGenerate]_vars

\* The load of the project view: the route names any project id, created
\* or not; the store answers getProject, fails or stays silent; projects are
\* created and deleted meanwhile; the view is unmounted at any time.
NextLoad ==
  \/ /\ Quiet
     /\ \/ \E c \in CallIds : CreateProject(c, "u1", "24h", CHOOSE d \in DrawSeqs : TRUE)
        \/ \E c \in CallIds : CreateProjectSetDoc(c)
        \/ \E b \in background : BackgroundRole(b, TRUE)
        \/ \E c \in CallIds, p \in ProjectIds : Known(p) /\ DeleteProject(c, p)
        \/ \E c \in CallIds : DeleteTasksQuery(c)
        \/ \E c \in CallIds : DeleteMessagesQuery(c)
        \/ \E c \in CallIds : DeleteCommit(c)
        \/ \E c \in CallIds, p \in ProjectIds : LoadProject(c, p)
        \/ \E c \in CallIds : GetProjectSettles(c)
        \/ \E c \in CallIds : GetProjectFails(c)
        \/ \E c \in CallIds : GetProjectTimesOut(c)
        \/ \E found \in BOOLEAN : LoadMembers(found)
        \/ OpenSubscriptions
        \/ Unmount
        \/ Tick
  \/ \E b \in background : BackgroundMilestones(b, TRUE)
  \/ \E c \in CallIds : LoadProjectAfterFetch(c)
  \/ \E c \in CallIds : calls[c].op # "getProject" /\ Return(c)

SpecLoad == Init /\ [][NextLoad]_vars

\* The field data of the write operations, one call at a time, for every
\* argument over the fields a caller may leave unset.
NextData ==
  \/ \E op \in WriteOps : \E args \in Arguments(op) : Write(op, args)
  \/ WriteReturns

SpecData == Init /\ [][NextData]_vars

\* Wellness settings saved and read for every project and user, each call
\* answered or failed by the store.
NextWellness ==
  \/ \E p \in ProjectIds, u \in Users, s \in Settings, ok \in BOOLEAN :
       SaveWellnessSettings(p, u, s, ok)
  \/ \E p \in ProjectIds, u \in Users, ok \in BOOLEAN :
       GetWellnessSettings(p, u, ok)

SpecWellness == Init /\ [][NextWellness]_vars

\* Notifications created, read or unread, and marked read under every id, of
\* a document or of none, with the store committing or failing the update.
NotificationIds == (0 - MaxDocs)..MaxDocs

NextRead ==
  \/ \E p \in ProjectIds, u \in Users, low \in BOOLEAN :
       numDocs < MaxDocs /\ CreateNotification(p, u, low)
  \/ \E id \in NotificationIds, ok \in BOOLEAN : MarkNotificationRead(id, ok)

SpecRead == Init /\ [][NextRead]_vars

\* The project view from its mount on: a project is created, the view loads
\* it and subscribes, tasks are added through the view, the store commits or
\* fails each write, the streams deliver in any order with the handlers'
\* continuations, any stream may fail, and the view may be unmounted.
NextAdd ==
  \/ /\ Quiet
     /\ \/ \E c \in CallIds : CreateProject(c, "u1", "24h", CHOOSE d \in DrawSeqs : TRUE)
        \/ \E c \in CallIds : CreateProjectSetDoc(c)
        \/ \E b \in background : BackgroundRole(b, TRUE)
        \/ \E c \in CallIds, p \in ProjectIds : Known(p) /\ LoadProject(c, p)
        \/ \E c \in CallIds : GetProjectSettles(c)
        \/ LoadMembers(TRUE)
        \/ OpenSubscriptions
        \/ \E c \in CallIds : HandleAddTask(c)
        \/ \E c \in CallIds : AddTaskSetDoc(c)
        \/ \E k \in PageKinds, now \in DateNow : PageSnapshot(k, now)
        \/ \E k \in PageKinds : PageStreamError(k)
        \/ Unmount
  \/ \E b \in background : BackgroundMilestones(b, TRUE)
  \/ \E c \in CallIds : LoadProjectAfterFetch(c)
  \/ \E c \in CallIds : HandleAddTaskAfter(c)
  \/ \E k \in {"tasks"}, now \in DateNow :
       (\E c \in CallIds : calls[c].op = "addTask") /\ PageSnapshot(k, now)
  \/ \E c \in CallIds : calls[c].op \notin {"getProject", "addTask"} /\ Return(c)

SpecAdd == Init /\ [][NextAdd]_vars

\* The project view from its mount on, with its tasks subscribed: a task is
\* added through the view, the status of a listed task is changed, the store
\* commits or fails each write at any later time, and the tasks stream
\* delivers every change of the local cache or fails. The client's clock
\* reads the store's next timestamp.
Listed(t) == \E i \in DOMAIN viewTasks : viewTasks[i].task_id = t

\* The store settles the writes of one client in the order it issued them.
Oldest(c) ==
  \A x \in CallIds :
    (calls[x].op = "handleUpdateTaskStatus" /\ calls[x].pc = "updateTask") =>
      calls[c].seq <= calls[x].seq

NextStatus ==
  \/ /\ Quiet
     /\ \/ \E c \in CallIds : CreateProject(c, "u1", "24h", CHOOSE d \in DrawSeqs : TRUE)
        \/ \E c \in CallIds : CreateProjectSetDoc(c)
        \/ \E b \in background : BackgroundRole(b, TRUE)
        \/ \E c \in CallIds, p \in ProjectIds : Known(p) /\ LoadProject(c, p)
        \/ \E c \in CallIds : GetProjectSettles(c)
        \/ LoadMembers(TRUE)
        \/ OpenSubscriptions
        \/ \E c \in CallIds : numTasks < MaxAdded /\ HandleAddTask(c)
        \/ \E c \in CallIds : AddTaskSetDoc(c)
        \/ \E c \in CallIds, t \in TaskIds, st \in Statuses :
             Listed(t) /\ HandleUpdateTaskStatus(c, t, st)
        \/ \E c \in CallIds : Oldest(c) /\ UpdateTaskSettles(c)
        \/ \E c \in CallIds : Oldest(c) /\ UpdateTaskFails(c)
        \/ PageStreamError("tasks")
  \/ \E b \in background : BackgroundMilestones(b, TRUE)
  \/ \E c \in CallIds : LoadProjectAfterFetch(c)
  \/ \E c \in CallIds : HandleAddTaskAfter(c)
  \/ \E k \in PageKinds : PageSnapshot(k, clock + 1)
  \/ \E c \in CallIds : calls[c].op \notin {"getProject", "addTask"} /\ Return(c)

SpecStatus == Init /\ [][NextStatus]_vars

\* deleteProject on a store that holds records of every collection. Once
\* the project exists and before the first task or message, a schedule
\* event, a resource, an activity, a notification and wellness settings of
\* the project are written one after the other; tasks are created for the
\* project and for another one.
Seeding ==
  /\ \E p \in ProjectIds : projects[p].exists
  /\ numTasks = 0 /\ numMessages = 0
  /\ \A c \in CallIds : calls[c].op = "none"

NextFrame ==
  \/ /\ Quiet
     /\ \/ \E c \in CallIds : CreateProject(c, "u1", "24h", CHOOSE d \in DrawSeqs : TRUE)
        \/ \E c \in CallIds : CreateProjectSetDoc(c)
        \/ \E b \in background : BackgroundRole(b, TRUE)
        \/ \E c \in CallIds, p \in FeedProjects : CreateTask(c, p, "ToDo")
        \/ \E c \in CallIds : CreateTaskSetDoc(c)
        \/ \E c \in CallIds, p \in ProjectIds : SendMessage(c, p)
        \/ \E c \in CallIds : SendMessageSetDoc(c)
        \/ \E p \in ProjectIds :
             /\ Seeding /\ scheduleEvents = {}
             /\ CreateScheduleEvent(p, "u1", 1, FALSE)
        \/ \E p \in ProjectIds :
             /\ Seeding /\ scheduleEvents # {} /\ resources = {}
             /\ UploadResource(p, FALSE)
        \/ \E p \in ProjectIds :
             /\ Seeding /\ resources # {} /\ activities = {}
             /\ AddActivity(p, FALSE)
        \/ \E p \in ProjectIds :
             /\ Seeding /\ activities # {} /\ notifications = {}
             /\ CreateNotification(p, "u1", FALSE)
        \/ \E p \in ProjectIds :
             /\ Seeding /\ notifications # {} /\ wellness.docs = {}
             /\ SaveWellnessSettings(p, "u1", "settings A", TRUE)
        \/ \E c \in CallIds, p \in ProjectIds : Known(p) /\ DeleteProject(c, p)
        \/ \E c \in CallIds : DeleteTasksQuery(c)
        \/ \E c \in CallIds : DeleteMessagesQuery(c)
        \/ \E c \in CallIds : DeleteCommit(c)
  \/ \E b \in background : BackgroundMilestones(b, TRUE)
  \/ \E c \in CallIds : Return(c)

SpecFrame == Init /\ [][NextFrame]_vars

\* The project view from its mount to any time after its unmount, while
\* tasks and messages of the project are written: getProject answers or
\* fails, the members are read or not, the timer runs, the three streams
\* deliver or fail, and the effect's cleanup runs at any point.
NextUnmount ==
  \/ /\ Quiet
     /\ \/ \E c \in CallIds : CreateProject(c, "u1", "24h", CHOOSE d \in DrawSeqs : TRUE)
        \/ \E c \in CallIds : CreateProjectSetDoc(c)
        \/ \E b \in background : BackgroundRole(b, TRUE)
        \/ \E c \in CallIds, p \in ProjectIds :
             Known(p) /\ numTasks < MaxAdded /\ CreateTask(c, p, "ToDo")
        \/ \E c \in CallIds : CreateTaskSetDoc(c)
        \/ \E c \in CallIds, p \in ProjectIds : Known(p) /\ SendMessage(c, p)
        \/ \E c \in CallIds : SendMessageSetDoc(c)
        \/ \E c \in CallIds, p \in ProjectIds : Known(p) /\ LoadProject(c, p)
        \/ \E c \in CallIds : GetProjectSettles(c)
        \/ \E c \in CallIds : GetProjectFails(c)
        \/ \E found \in BOOLEAN : LoadMembers(found)
        \/ OpenSubscriptions
        \/ \E k \in PageKinds : PageSnapshot(k, clock + 1)
        \/ \E k \in PageKinds : PageStreamError(k)
        \/ Unmount
  \/ \E b \in background : BackgroundMilestones(b, TRUE)
  \/ \E c \in CallIds : LoadProjectAfterFetch(c)
  \/ \E c \in CallIds : calls[c].op # "getProject" /\ Return(c)

SpecUnmount == Init /\ [][NextUnmount]_vars

\* The project view over a store that keeps answering: the view is mounted,
\* loads, subscribes and is unmounted while a task is written. Every step
\* that can be taken is taken in the end; no stream fails.
NextLeak ==
  \/ /\ Quiet
     /\ \/ \E c \in CallIds : CreateProject(c, "u1", "24h", CHOOSE d \in DrawSeqs : TRUE)
        \/ \E c \in CallIds : CreateProjectSetDoc(c)
        \/ \E b \in background : BackgroundRole(b, TRUE)
        \/ \E c \in CallIds, p \in ProjectIds :
             Known(p) /\ numTasks < MaxAdded /\ CreateTask(c, p, "ToDo")
        \/ \E c \in CallIds : CreateTaskSetDoc(c)
        \/ \E c \in CallIds, p \in ProjectIds : Known(p) /\ LoadProject(c, p)
        \/ \E c \in CallIds : GetProjectSettles(c)
        \/ \E found \in BOOLEAN : LoadMembers(found)
        \/ OpenSubscriptions
        \/ \E k \in PageKinds : PageSnapshot(k, clock + 1)
        \/ Unmount
  \/ \E b \in background : BackgroundMilestones(b, TRUE)
  \/ \E c \in CallIds : LoadProjectAfterFetch(c)
  \/ \E c \in CallIds : calls[c].op # "getProject" /\ Return(c)

SpecLeak == Init /\ [][NextLeak]_vars /\ WF_vars(NextLeak)

\* The project view that stays mounted, over a store that answers the read
\* of the project, fails it or stays silent, deletes the project, and
\* delivers or fails the view's streams. The event loop runs a due timer and
\* a settled await's continuation, and time passes while a timer is pending.
NextMounted ==
  \/ /\ Quiet
     /\ \/ \E c \in CallIds : CreateProject(c, "u1", "24h", CHOOSE d \in DrawSeqs : TRUE)
        \/ \E c \in CallIds : CreateProjectSetDoc(c)
        \/ \E b \in background : BackgroundRole(b, TRUE)
        \/ \E c \in CallIds, p \in ProjectIds : Known(p) /\ DeleteProject(c, p)
        \/ \E c \in CallIds : DeleteTasksQuery(c)
        \/ \E c \in CallIds : DeleteMessagesQuery(c)
        \/ \E c \in CallIds : DeleteCommit(c)
        \/ \E c \in CallIds, p \in ProjectIds : LoadProject(c, p)
        \/ \E c \in CallIds : GetProjectSettles(c)
        \/ \E c \in CallIds : GetProjectFails(c)
        \/ \E found \in BOOLEAN : LoadMembers(found)
        \/ OpenSubscriptions
        \/ \E k \in PageKinds : PageSnapshot(k, clock + 1)
        \/ \E k \in PageKinds : PageStreamError(k)
  \/ \E c \in CallIds : GetProjectTimesOut(c)
  \/ Tick
  \/ \E b \in background : BackgroundMilestones(b, TRUE)
  \/ \E c \in CallIds : LoadProjectAfterFetch(c)
  \/ \E c \in CallIds : calls[c].op # "getProject" /\ Return(c)

SpecMounted ==
  /\ Init
  /\ [][NextMounted]_vars
  /\ WF_vars(Tick)
  /\ \A c \in CallIds :
       /\ WF_vars(GetProjectTimesOut(c))
       /\ WF_vars(LoadProjectAfterFetch(c))
       /\ WF_vars(calls[c].op # "getProject" /\ Return(c))

\* ------------------------------------------------------------------ claims
\* The step is one of call c of operation op.
StepOf(c, op) == calls[c].op = op /\ calls'[c] # calls[c]

MembersOf(p) == Range(projects[p].members)

\* C1: joinProjectByCode is all-or-nothing. The only step of a join call
\* that writes is the settling of its commit, and after that step either the
\* caller is in the project's member set and the role record
\* {project}_{user} holds 'member' (the call resolves), or the project and
\* role collections are as they were (the call rejects); the steps of the
\* lookup write nothing.
C1_JoinAllOrNothing ==
  [][\A c \in CallIds :
       StepOf(c, "joinProjectByCode") =>
         LET f == calls[c] IN
         /\ f.pc = "lookup" => (projects' = projects /\ roles' = roles)
         /\ (f.pc = "commit" /\ calls'[c].pc # "commit") =>
              \/ /\ calls'[c].pc = "resolved"
                 /\ f.user \in Range(projects'[f.pid].members)
                 /\ roles'[<< f.pid, f.user >>] = "member"
              \/ /\ calls'[c].pc = "rejected"
                 /\ projects' = projects
                 /\ roles' = roles]_vars

\* A join has committed: its caller is a member and holds the member role.
C1_Witness ==
  \E c \in CallIds, u \in Users :
    /\ calls[c].op = "joinProjectByCode" /\ calls[c].pc = "resolved"
    /\ calls[c].result # Null
    /\ u \in MembersOf(calls[c].result)
    /\ projects[calls[c].result].created_by # u
    /\ roles[<< calls[c].result, u >>] = "member"

\* C2: every project document written by createProject has its creator in
\* the member array and a join code of exactly 6 characters of the
\* 36-character alphabet A-Z0-9.
C2_CreatedProject ==
  [][\A p \in ProjectIds :
       (~projects[p].exists /\ projects'[p].exists) =>
         LET doc == projects'[p] IN
         /\ doc.created_by \in Range(doc.members)
         /\ Len(doc.join_code) = 6
         /\ \A i \in 1..Len(doc.join_code) : doc.join_code[i] \in Range(chars)
         /\ Cardinality(Range(chars)) = 36]_vars

\* A project was created whose code was drawn from the top of the
\* alphabet (the largest Math.random() values).
C2_Witness ==
  \E p \in ProjectIds :
    /\ projects[p].exists
    /\ projects[p].join_code = << "9", "9", "9", "9", "9", "9" >>

\* C3: in every reachable state each existing project's member array holds
\* its created_by user.
C3_CreatorAlwaysMember ==
  \A p \in ProjectIds :
    projects[p].exists => projects[p].created_by \in MembersOf(p)

\* C8: joinProjectByCode resolves with the id of the project it joined, a
\* project carrying the given code, or with null; it resolves with null
\* exactly when its lookup ends with no document (no project has the code,
\* the lookup failed or timed out), and a call that resolves with null has
\* written nothing to the project and role collections.
C8_JoinResult ==
  [][\A c \in CallIds :
       LET f == calls[c]
           g == calls'[c]
           withCode == { p \in ProjectIds :
                           projects[p].exists /\ projects[p].join_code = f.code }
       IN
       /\ (f.op = "none" /\ g.op = "joinProjectByCode") =>
            (projects' = projects /\ roles' = roles)
       /\ StepOf(c, "joinProjectByCode") =>
            /\ (f.pc = "lookup" /\ g.pc # "lookup") =>
                 /\ projects' = projects /\ roles' = roles
                 /\ g.pc = "resolved" =>
                      /\ g.result = Null
                      /\ withCode = {} \/ g.by \in {"error", "timer"}
                 /\ g.pc = "commit" => (g.pid \in withCode /\ g.by = "store")
            /\ (f.pc = "commit" /\ g.pc = "resolved") =>
                 /\ g.result = f.pid
                 /\ projects'[g.result].join_code = f.code
                 /\ f.user \in Range(projects'[g.result].members)]_vars

\* A join resolved with null while a project exists.
C8_Witness ==
  \E c \in CallIds, p \in ProjectIds :
    /\ calls[c].op = "joinProjectByCode" /\ calls[c].pc = "resolved"
    /\ calls[c].result = Null /\ calls[c].by = "store"
    /\ projects[p].exists

FetchOps == {"getProject", "getUserProjects"}

\* C6: getProject and getUserProjects never reject and always resolve: a
\* call waiting on the store has waited at most 3000 ms, leaves its wait
\* resolved, and ends with the fallback (null, the empty list) when the
\* store call failed or the timer won; without a database handle the call
\* resolves with the fallback at once; and every waiting call eventually
\* resolves, also when the store never answers.
C6_FetchAlwaysResolves ==
  /\ [](\A c \in CallIds :
          calls[c].op \in FetchOps =>
            /\ calls[c].pc # "rejected"
            /\ calls[c].pc = "fetch" => calls[c].elapsed <= ProjectTimeout
            /\ ~dbAvailable =>
                 (calls[c].pc = "resolved" /\ calls[c].result = Null
                    /\ calls[c].list = << >>))
  /\ [][\A c \in CallIds :
          (calls[c].op \in FetchOps /\ calls[c].pc = "fetch"
             /\ calls'[c].pc # "fetch") =>
            /\ calls'[c].pc = "resolved"
            /\ calls'[c].by \in {"error", "timer"} =>
                 (calls'[c].result = Null /\ calls'[c].list = << >>)]_vars
  /\ \A c \in CallIds :
       (calls[c].op \in FetchOps /\ calls[c].pc = "fetch")
         ~> (calls[c].op \in FetchOps /\ calls[c].pc = "resolved")

\* A fetch was resolved by its timer while a project it asked for exists.
C6_Witness ==
  \E c \in CallIds :
    /\ calls[c].op = "getProject" /\ calls[c].pc = "resolved"
    /\ calls[c].by = "timer" /\ calls[c].result = Null
    /\ projects[calls[c].pid].exists

\* C7 as claimed: neither the start of joinProjectByCode nor its lookup ever
\* rejects, whether the store is unreachable or the handle unavailable.
C7_LookupNeverRejects ==
  [][\A c \in CallIds :
       (calls'[c].op = "joinProjectByCode" /\ calls'[c] # calls[c]
          /\ calls[c].pc \in {"idle", "lookup"}) =>
         calls'[c].pc # "rejected"]_vars

\* C7 amended: with a database handle, the lookup of joinProjectByCode has
\* waited at most 5000 ms, never rejects, gives null when the query fails
\* or the timer wins, and always ends; without a handle the call rejects
\* before any lookup.
C7_LookupBounded ==
  /\ [](\A c \in CallIds :
          (calls[c].op = "joinProjectByCode" /\ calls[c].pc = "lookup") =>
            (dbAvailable /\ calls[c].elapsed <= JoinTimeout))
  /\ [][\A c \in CallIds :
          /\ (calls[c].op = "joinProjectByCode" /\ calls[c].pc = "lookup"
                /\ calls'[c].pc # "lookup") =>
               /\ calls'[c].pc # "rejected"
               /\ calls'[c].by \in {"error", "timer"} =>
                    (calls'[c].pc = "resolved" /\ calls'[c].result = Null)
          /\ (calls[c].op = "none" /\ calls'[c].op = "joinProjectByCode") =>
               (calls'[c].pc = "rejected" <=> ~dbAvailable)]_vars
  /\ \A c \in CallIds :
       (calls[c].op = "joinProjectByCode" /\ calls[c].pc = "lookup")
         ~> (calls[c].pc # "lookup")

\* A lookup was ended by its timer, for a code that a project carries.
C7_Witness ==
  \E c \in CallIds, p \in ProjectIds :
    /\ calls[c].op = "joinProjectByCode" /\ calls[c].pc = "resolved"
    /\ calls[c].by = "timer" /\ calls[c].result = Null
    /\ projects[p].exists

\* C4 as claimed: in the step that deletes a project document no task and
\* no message of that project is left.
C4_NoOrphanAfterDelete ==
  [][\A p \in ProjectIds :
       (projects[p].exists /\ ~projects'[p].exists) =>
         /\ \A t \in TaskIds : ~(tasks'[t].exists /\ tasks'[t].project_id = p)
         /\ \A m \in MessageIds :
              ~(messages'[m].exists /\ messages'[m].project_id = p)]_vars

\* C4 amended: the commit of deleteProject removes, in one step with the
\* project document, exactly the tasks and messages its two queries
\* returned; no task or message is removed in any other step; and when the
\* queries returned every task and message the project has at the commit,
\* none is left once the project document is gone.
C4_BatchDeletesQueried ==
  [][LET commits(c) == /\ calls[c].op = "deleteProject"
                       /\ calls[c].pc = "commit"
                       /\ calls'[c].pc = "resolved"
     IN
     /\ \A c \in CallIds :
          commits(c) =>
            LET f == calls[c] IN
            /\ ~projects'[f.pid].exists
            /\ \A t \in TaskIds : tasks'[t].exists <=> (tasks[t].exists /\ t \notin f.delTasks)
            /\ \A m \in MessageIds :
                 messages'[m].exists <=> (messages[m].exists /\ m \notin f.delMessages)
            /\ (TasksOf(f.pid) \subseteq f.delTasks /\ MessagesOf(f.pid) \subseteq f.delMessages) =>
                 /\ \A t \in TaskIds : ~(tasks'[t].exists /\ tasks'[t].project_id = f.pid)
                 /\ \A m \in MessageIds :
                      ~(messages'[m].exists /\ messages'[m].project_id = f.pid)
     /\ \A t \in TaskIds :
          (tasks[t].exists /\ ~tasks'[t].exists) => \E c \in CallIds : commits(c)
     /\ \A m \in MessageIds :
          (messages[m].exists /\ ~messages'[m].exists) => \E c \in CallIds : commits(c)
     /\ \A p \in ProjectIds :
          (projects[p].exists /\ ~projects'[p].exists) => \E c \in CallIds : commits(c)]_vars

\* A deleteProject has resolved that took a task and a message of an
\* existing project with it.
C4_Witness ==
  \E c \in CallIds :
    /\ calls[c].op = "deleteProject" /\ calls[c].pc = "resolved"
    /\ calls[c].delTasks # {} /\ calls[c].delMessages # {}
    /\ projects[calls[c].pid].created_at = Null
    /\ \E b \in background : b.pid = calls[c].pid
    /\ \A t \in calls[c].delTasks : ~tasks[t].exists

\* C5: in deleteProject a failed tasks query or messages query is logged and
\* swallowed: the call goes on to the next query or to the commit; when the
\* commit succeeds the project document is deleted; and the call rejects
\* only from its commit, leaving the store as it was.
C5_QueryFailureSwallowed ==
  [][\A c \in CallIds :
       StepOf(c, "deleteProject") =>
         LET f == calls[c]
             g == calls'[c]
         IN
         /\ f.pc = "tasksQuery" => g.pc = "messagesQuery"
         /\ f.pc = "messagesQuery" => g.pc = "commit"
         /\ (f.logged /\ f.pc \in {"tasksQuery", "messagesQuery", "commit"}) => g.logged
         /\ (f.pc = "commit" /\ g.pc = "resolved") => ~projects'[f.pid].exists
         /\ g.pc = "rejected" =>
              (f.pc = "commit" /\ projects' = projects /\ tasks' = tasks
                 /\ messages' = messages)]_vars

\* A deleteProject resolved after a query of it had failed: the project
\* document is gone and a task of the project is still there.
C5_Witness ==
  \E c \in CallIds :
    /\ calls[c].op = "deleteProject" /\ calls[c].pc = "resolved"
    /\ calls[c].logged
    /\ \E b \in background : b.pid = calls[c].pid
    /\ ~projects[calls[c].pid].exists
    /\ TasksOf(calls[c].pid) # {}

TaskEntries(list, t) == { i \in DOMAIN list : list[i].task_id = t }

\* C9: handleUpdateTaskStatus(taskId, s) sets the local status of that task
\* to s at once, before the remote write settles, and changes no other
\* entry; when updateTask fails, the local status of that task is again the
\* one it had before the optimistic change and no other entry changes; when
\* updateTask succeeds the local list is left as it is.
C9_OptimisticStatus ==
  [][\A c \in CallIds :
       LET f == calls[c]
           g == calls'[c]
       IN
       /\ (f.op = "none" /\ g.op = "handleUpdateTaskStatus") =>
            /\ g.pc = "updateTask"
            /\ tasks' = tasks
            /\ DOMAIN viewTasks' = DOMAIN viewTasks
            /\ \A i \in DOMAIN viewTasks :
                 /\ viewTasks'[i].task_id = viewTasks[i].task_id
                 /\ viewTasks'[i].status =
                      IF viewTasks[i].task_id = g.tid THEN g.status
                      ELSE viewTasks[i].status
            /\ g.closure = viewTasks
       /\ (f.op = "handleUpdateTaskStatus" /\ f.pc = "updateTask"
             /\ g.pc = "resolved" /\ g.by = "error") =>
            /\ DOMAIN viewTasks' = DOMAIN viewTasks
            /\ \A i \in DOMAIN viewTasks :
                 /\ viewTasks'[i].task_id = viewTasks[i].task_id
                 /\ viewTasks[i].task_id # f.tid => viewTasks'[i] = viewTasks[i]
                 /\ viewTasks[i].task_id = f.tid =>
                      \E j \in TaskEntries(f.closure, f.tid) :
                        viewTasks'[i].status = f.closure[j].status]_vars

\* A change ToDo -> InProgress failed and the task is ToDo again.
C9_Witness ==
  \E c \in CallIds :
    /\ calls[c].op = "handleUpdateTaskStatus" /\ calls[c].pc = "resolved"
    /\ calls[c].by = "error" /\ calls[c].status = "InProgress"
    /\ \E i \in DOMAIN viewTasks, j \in DOMAIN calls[c].closure :
         /\ viewTasks[i].task_id = calls[c].tid /\ viewTasks[i].status = "ToDo"
         /\ calls[c].closure[j].task_id = calls[c].tid
         /\ calls[c].closure[j].status = "ToDo"

\* The status changes of task t that are in flight.
InFlightOn(t) ==
  { c \in CallIds : calls[c].op = "handleUpdateTaskStatus"
                      /\ calls[c].pc = "updateTask" /\ calls[c].tid = t }

\* C10: with status changes of one task in flight together, a change issued
\* while another is in flight sets the local status to its own value, and
\* no successful remote write, in whichever order the writes commit, changes
\* the local list: the local status stays the one applied last.
C10_LastLocalWriteWins ==
  [][\A c \in CallIds :
       LET f == calls[c]
           g == calls'[c]
       IN
       /\ (f.op = "none" /\ g.op = "handleUpdateTaskStatus" /\ InFlightOn(g.tid) # {}) =>
            \A i \in TaskEntries(viewTasks', g.tid) : viewTasks'[i].status = g.status
       /\ (f.op = "handleUpdateTaskStatus" /\ f.pc = "updateTask"
             /\ g.pc = "resolved" /\ g.by = "store") =>
            viewTasks' = viewTasks]_vars

\* Two changes of one task: the one applied last has committed while the
\* one applied first is still in flight with another value; the store holds
\* the committed value and the local status is the one applied last.
C10_Witness ==
  \E c1, c2 \in CallIds, i \in DOMAIN viewTasks :
    /\ calls[c1].op = "handleUpdateTaskStatus" /\ calls[c1].pc = "updateTask"
    /\ calls[c2].op = "handleUpdateTaskStatus" /\ calls[c2].pc = "resolved"
    /\ calls[c2].by = "store"
    /\ calls[c1].tid = calls[c2].tid
    /\ calls[c1].status # calls[c2].status
    /\ \E j \in TaskEntries(calls[c2].closure, calls[c2].tid) :
         calls[c2].closure[j].status = calls[c1].status
    /\ \E j \in TaskEntries(calls[c1].closure, calls[c1].tid) :
         calls[c1].closure[j].status \notin {calls[c1].status, calls[c2].status}
    /\ viewTasks[i].task_id = calls[c2].tid
    /\ viewTasks[i].status = calls[c2].status

\* The step invokes the callback of subscription s.
Invokes(s) == subs'[s].invoked = subs[s].invoked + 1

\* C11: for every subscription to tasks, messages, milestones, schedule
\* events, resources, activities or notifications, the step in which its
\* stream fails invokes the callback exactly once, with the empty sequence,
\* and after the failure the subscription stays closed: no callback, no
\* re-opening.
C11_StreamErrorCallback ==
  [][\A s \in SubIds :
       subs[s].kind \in ListKinds =>
         /\ (subs[s].state = "open" /\ subs'[s].state = "errored") =>
              (Invokes(s) /\ subs'[s].last = << >>)
         /\ subs[s].state = "errored" => subs'[s] = subs[s]]_vars

\* In the kind's order, a comes no later than b.
InOrder(kind, a, b) ==
  IF kind \in {"tasks", "activities", "notifications"} THEN a.time >= b.time
  ELSE a.time <= b.time

ActivitiesOf(p) == { d \in activities : d.project_id = p }

\* C13: subscribeToActivities never hands over more than 50 activities; a
\* snapshot hands over activities of the project only, none of them older
\* than an activity of the project it leaves out, all of them when the
\* project has at most 50 and exactly 50 when it has more.
C13_FiftyMostRecent ==
  /\ [](\A s \in SubIds :
          subs[s].kind = "activities" => Len(subs[s].last) <= 50)
  /\ [][\A s \in SubIds :
          (subs'[s].kind = "activities" /\ Invokes(s) /\ subs'[s].cause = "snapshot") =>
            LET got == { subs'[s].last[i] : i \in DOMAIN subs'[s].last }
                all == ActivitiesOf(subs[s].pid)
            IN
            /\ got \subseteq all
            /\ Cardinality(got) = Len(subs'[s].last)
            /\ Len(subs'[s].last) = Min(50, Cardinality(all))
            /\ \A d \in all \ got : \A e \in got : d.time <= e.time]_vars

\* More than 50 activities of the project, listed by the store in another
\* order than by time, and 50 handed over.
C13_Witness ==
  \E s \in SubIds :
    /\ subs[s].kind = "activities" /\ subs[s].cause = "snapshot"
    /\ Len(subs[s].seen) > 50
    /\ Len(subs[s].last) = 50
    /\ \E i \in 1..(Len(subs[s].seen) - 1) :
         subs[s].seen[i].time < subs[s].seen[i + 1].time
    /\ \E d \in activities : d.project_id # subs[s].pid

\* The documents of a kind the client has: those of the store and its own
\* writes not yet acknowledged.
ClientDocs(kind) == Collection(kind) \cup PendingWrites(kind)

\* C14: every snapshot of a subscription to tasks, messages, milestones,
\* schedule events, resources or notifications hands over one entry for each
\* document of the collection that has the subscription's project_id (and,
\* for schedule events and notifications, its user_id), and no other entry:
\* the whole current set, not the changed documents.
C14_FullSet ==
  [][\A s \in SubIds :
       (subs'[s].kind \in (ListKinds \ {"activities"})
          /\ Invokes(s) /\ subs'[s].cause = "snapshot") =>
         LET kind == subs[s].kind
             got == { subs'[s].last[i].id : i \in DOMAIN subs'[s].last }
             want == { d \in ClientDocs(kind) :
                         /\ d.project_id = subs[s].pid
                         /\ kind \in {"scheduleEvents", "notifications"} =>
                              d.user_id = subs[s].user }
         IN
         /\ got = { d.id : d \in want }
         /\ Len(subs'[s].last) = Cardinality(want)]_vars

\* A second or later snapshot handed over two notifications of the user
\* while the project has a notification of another user.
C14_Witness ==
  \E s \in SubIds :
    /\ subs[s].kind = "notifications" /\ subs[s].cause = "snapshot"
    /\ subs[s].invoked >= 2
    /\ Len(subs[s].last) = 2
    /\ \E d \in notifications :
         d.project_id = subs[s].pid /\ d.user_id # subs[s].user

\* The greatest version that the streams of member id have received.
LatestReceived(sub, id) ==
  LET got == { sub.streams[i].seen : i \in { j \in DOMAIN sub.memberIds : sub.memberIds[j] = id } }
  IN CHOOSE v \in got : \A w \in got : w <= v

\* C15: subscribeToProjectMembers has one stream per element of memberIds;
\* every sequence its callback receives is the whole accumulated map: at most
\* one entry per member id, only ids of memberIds, each entry the latest
\* document received for its id; and every update of an existing member
\* document invokes the callback with that map.
C15_MembersMap ==
  /\ [](\A s \in SubIds :
          (subs[s].kind = "members" /\ subs[s].state = "open") =>
            LET sub == subs[s] IN
            /\ DOMAIN sub.streams = DOMAIN sub.memberIds
            /\ sub.last = sub.membersMap
            /\ \A i, j \in DOMAIN sub.last :
                 sub.last[i].user_id = sub.last[j].user_id => i = j
            /\ \A i \in DOMAIN sub.last :
                 /\ sub.last[i].user_id \in Range(sub.memberIds)
                 /\ sub.last[i].version = LatestReceived(sub, sub.last[i].user_id))
  /\ [][\A s \in SubIds :
          (subs[s].kind = "members" /\ subs'[s].kind = "members") =>
            \A i \in DOMAIN subs[s].streams :
              (subs'[s].streams[i].seen # subs[s].streams[i].seen) => Invokes(s)]_vars

\* Two members, the first one's document received a second time: the map
\* holds both, the first in its place with the later document.
C15_Witness ==
  \E s \in SubIds :
    /\ subs[s].kind = "members" /\ subs[s].invoked >= 3
    /\ Len(subs[s].last) = 2
    /\ subs[s].last[1].version = 2
    /\ subs[s].last[1].user_id # subs[s].last[2].user_id

\* ---- C16
\* C16: removeMemberFromProject is all-or-nothing. The step that resolves the
\* call leaves the user out of the project's member array and without a role
\* record for the project, and changes nothing else of the project; a step
\* that rejects the call, and the step of its getDoc, write nothing.
C16_RemoveAllOrNothing ==
  [][ \A c \in CallIds :
        StepOf(c, "removeMemberFromProject") =>
          LET f == calls[c] IN
          IF calls'[c].pc = "resolved"
          THEN /\ f.user \notin Range(projects'[f.pid].members)
               /\ roles'[<< f.pid, f.user >>] = "none"
               /\ projects' = [projects EXCEPT
                                 ![f.pid].members = projects'[f.pid].members]
               /\ \A k \in RoleKeys : k # << f.pid, f.user >> => roles'[k] = roles[k]
          ELSE UNCHANGED << projects, roles >> ]_vars

\* A removal resolved on a project that still exists and has no member left:
\* the creator, a member since the project's creation, was removed.
C16_Witness ==
  \E c \in CallIds :
    /\ calls[c].op = "removeMemberFromProject" /\ calls[c].pc = "resolved"
    /\ projects[calls[c].pid].exists
    /\ projects[calls[c].pid].members = << >>
    /\ roles[<< calls[c].pid, "u1" >>] = "none"

\* ---- C17
\* C17: createProject resolves with the new id in the step in which its
\* primary write is applied, with both background writes still pending; a
\* step that settles a background write, committed or failed, leaves every
\* call as it is; and a createProject that rejects has written no project.
C17_ResolvesOnPrimaryWrite ==
  [][ /\ \A c \in CallIds :
           (StepOf(c, "createProject") /\ calls[c].pc = "setDoc") =>
             LET f == calls[c] IN
             IF projects'[f.pid].exists
             THEN /\ calls'[c].pc = "resolved" /\ calls'[c].result = f.pid
                  /\ \A k \in {"role", "milestones"} :
                       \E b \in background' : b.kind = k /\ b.pid = f.pid
             ELSE calls'[c].pc = "rejected" /\ projects' = projects
      /\ (background' # background /\ background' \subseteq background) =>
           calls' = calls
      /\ \A c \in CallIds :
           (calls'[c] # calls[c] /\ calls'[c].op = "createProject"
              /\ calls'[c].pc = "rejected") =>
             (calls'[c].pid \in ProjectIds => ~projects'[calls'[c].pid].exists) ]_vars

\* createProject has resolved with the id of the project, and both of its
\* background writes have failed: no role record, no milestone.
C17_Witness ==
  \E c \in CallIds :
    /\ calls[c].op = "createProject" /\ calls[c].pc = "resolved"
    /\ calls[c].result \in ProjectIds
    /\ projects[calls[c].result].exists
    /\ background = {}
    /\ roles[<< calls[c].result, projects[calls[c].result].created_by >>] = "none"
    /\ milestones = {}

\* ---- C18
MilestonesOf(p) == { m \in milestones : m.project_id = p }

\* The three default milestones of a project of duration d whose deadlines
\* are counted from time `from`: +4.8h, +16.8h, +24h for "24h" and +9.6h,
\* +33.6h, +48h for "48h", in milliseconds.
ThreeDefaults(ms, d, from) ==
  /\ Cardinality(ms) = 3
  /\ { << m.type, m.deadline - from >> : m \in ms } =
       IF d = "24h"
       THEN { << "idea_submission", 17280000 >>, << "prototype", 60480000 >>,
              << "final_presentation", 86400000 >> }
       ELSE { << "idea_submission", 34560000 >>, << "prototype", 120960000 >>,
              << "final_presentation", 172800000 >> }

\* C18 as stated: a created project whose milestone batch is no longer
\* pending has exactly its three default milestones, with deadlines counted
\* from its creation.
C18_ThreeDefaultMilestones ==
  \A p \in ProjectIds :
    (projects[p].exists /\ \A b \in background : ~(b.kind = "milestones" /\ b.pid = p)) =>
      ThreeDefaults(MilestonesOf(p), projects[p].duration, projects[p].created_at)

\* C18: a project has none of its default milestones (the batch is pending
\* or failed, and its failure is swallowed) or all three of them, never one
\* or two; the three have their deadlines at 20%, 70% and 100% of the
\* duration after the time the client's clock showed when the primary write
\* of createProject had resolved, which is the time of creation or up to
\* ClockSkew later.
C18_NoneOrThreeMilestones ==
  \A p \in ProjectIds :
    \/ MilestonesOf(p) = {}
    \/ /\ projects[p].exists
       /\ \E now \in projects[p].created_at .. (projects[p].created_at + ClockSkew) :
            ThreeDefaults(MilestonesOf(p), projects[p].duration, now)

\* A 48h project has its three milestones, counted from a client time later
\* than its creation time.
C18_Witness ==
  \E p \in ProjectIds :
    /\ projects[p].exists /\ projects[p].duration = "48h"
    /\ Cardinality(MilestonesOf(p)) = 3
    /\ ~ThreeDefaults(MilestonesOf(p), "48h", projects[p].created_at)

\* ---- C19
PrimaryWrites == {"createProject", "createTask", "addTask", "createTasks",
                  "updateTask", "sendMessage"}

\* C19 as stated: when the store write of a primary write operation settles
\* without having written (no project, task or message document changed),
\* the call rejects.
C19_WriteFailurePropagates ==
  [][ \A c \in CallIds :
        ( /\ calls[c].op \in PrimaryWrites
          /\ calls[c].pc \in {"setDoc", "commit", "updateDoc"}
          /\ calls'[c] # calls[c]
          /\ UNCHANGED << projects, tasks, messages >> ) =>
            calls'[c].pc = "rejected" ]_vars

\* ---- C20
\* C20 as stated: without a database handle no step touches the store; a
\* call of a one-shot fetch resolves at once to its fallback (null, the
\* empty list), a call of any other operation, all of them mutations,
\* rejects at once; and a subscribeTo* call invokes its callback once with
\* the empty value and returns a no-op handle.
C20_FailFast ==
  [][ /\ UNCHANGED << storeVars, idVars, feedVars, background >>
      /\ \A c \in CallIds :
           (calls[c].op = "none" /\ calls'[c].op # "none") =>
             IF calls'[c].op \in FetchOps
             THEN /\ calls'[c].pc = "resolved"
                  /\ calls'[c].result = Null /\ calls'[c].list = << >>
             ELSE calls'[c].pc = "rejected"
      /\ \A s \in SubIds :
           (subs[s].kind = "none" /\ subs'[s].kind # "none") =>
             /\ subs'[s].state = "noop"
             /\ subs'[s].invoked = 1 /\ subs'[s].last = << >> ]_vars

\* ---- C21
\* C21: once the unsubscribe handle of a subscription has been invoked, no
\* step invokes the subscription's callback; invoking the handle invokes no
\* callback and leaves no stream of the subscription open.
C21_NoCallbackAfterUnsubscribe ==
  [][ \A s \in SubIds :
        /\ subs[s].cancelled =>
             /\ subs'[s].cancelled
             /\ subs'[s].invoked = subs[s].invoked
             /\ subs'[s].last = subs[s].last
        /\ (~subs[s].cancelled /\ subs'[s].cancelled) =>
             /\ subs'[s].invoked = subs[s].invoked
             /\ subs'[s].state # "open" \/ subs'[s].kind = "members"
             /\ \A i \in DOMAIN subs'[s].streams : ~subs'[s].streams[i].open ]_vars

\* A cancelled subscription to two members that had delivered both of them,
\* and a user document written since that no stream has delivered.
C21_Witness ==
  \E s \in SubIds :
    /\ subs[s].kind = "members" /\ subs[s].cancelled
    /\ Len(subs[s].memberIds) = 2 /\ Len(subs[s].membersMap) = 2
    /\ \E i \in 1..2 : users[subs[s].memberIds[i]] # subs[s].streams[i].seen

\* ---- C22
\* C22: the step in which the adapter learns of a signed-in user publishes
\* that user's default profile and clears loading, and leaves the lookup of
\* the persisted profile pending when there is a database; a persisted
\* profile is published only by the step that ends a lookup that found the
\* document; a lookup that failed or found nothing changes no published
\* state, and no error leaves the adapter.
C22_DefaultThenPersisted ==
  /\ [](~auth.surfaced /\ (auth.userProfile.source = "persisted" => ~auth.loading))
  /\ [][ /\ (auth'.fbUser # auth.fbUser /\ auth'.fbUser # NoUser) =>
              /\ auth'.user = auth'.fbUser
              /\ auth'.userProfile = createDefaultProfile(auth'.fbUser)
              /\ ~auth'.loading
              /\ dbAvailable =>
                   \E l \in auth'.lookups \ auth.lookups : l.user = auth'.fbUser
         /\ (auth'.lookups = auth.lookups) =>
              (auth'.userProfile.source = "persisted" => auth'.userProfile = auth.userProfile)
         /\ \A l \in auth.lookups \ auth'.lookups :
              IF auth'.lastLookup = "found"
              THEN auth'.userProfile = ProfileData(l.user) /\ users[l.user] # 0
              ELSE /\ auth'.userProfile = auth.userProfile
                   /\ auth'.user = auth.user /\ auth'.loading = auth.loading ]_vars

\* A user is signed in whose profile document exists, the lookup has failed,
\* and the default profile is still the published one.
C22_Witness ==
  /\ auth.user # NoUser /\ users[auth.user] > 0
  /\ auth.lastLookup = "failed" /\ auth.lookups = {}
  /\ auth.userProfile = createDefaultProfile(auth.user)
  /\ ~auth.loading

\* ---- C30
\* C30 as stated: the published profile is null whenever the user is null,
\* and a published profile is the profile of the current user.
C30_ProfileMatchesUser ==
  /\ auth.user = NoUser => auth.userProfile = NoProfile
  /\ (auth.user # NoUser /\ auth.userProfile # NoProfile) =>
       auth.userProfile.user_id = auth.user

\* ---- C23
\* C23: a request is sent only by the step that starts a handleGenerate call,
\* one per call, so a failure is never followed by a second request of the
\* same call; the step that ends a call clears isGenerating; and a call that
\* ends in failure shows "Generation failed" and leaves the generated text
\* empty.
C23_FailureSurfacedNoRetry ==
  /\ [](gen.requests <= gen.calls /\ (gen.isGenerating <=> gen.pc # "idle"))
  /\ [][ /\ gen'.requests # gen.requests =>
              /\ gen'.requests = gen.requests + 1
              /\ gen'.calls = gen.calls + 1
              /\ gen.pc = "idle"
         /\ (gen.pc # "idle" /\ gen'.pc = "idle") =>
              /\ ~gen'.isGenerating
              /\ gen'.toast \in {"Generation failed", "Documentation generated!"}
              /\ gen'.toast = "Generation failed" => gen'.generatedDocs = ""
              /\ gen'.toast = "Documentation generated!" =>
                   gen'.generatedDocs \in GeneratedTexts ]_vars

\* The second of two requests has failed: the failure message is shown, the
\* text is empty and the flag is cleared.
C23_Witness ==
  /\ gen.requests >= 2 /\ gen.pc = "idle"
  /\ gen.toast = "Generation failed"
  /\ gen.generatedDocs = "" /\ ~gen.isGenerating


\* C24: the project view opens its project, task and message subscriptions
\* only in the timer step that follows a getProject resolved with an existing
\* project (the view's project is set only from such a result, and is the
\* project of the route); when getProject resolves to absent while the view
\* is mounted, the view records "Project not found", stops, and no
\* subscription is ever open in a view with that error.
PageOpens == \E k \in PageKinds : page.subs[k].kind = "none" /\ page'.subs[k].kind # "none"

C24_SubscribesAfterProjectFound ==
  /\ [](page.error = "Project not found" =>
          /\ page.project = Null
          /\ \A k \in PageKinds : page.subs[k].kind = "none")
  /\ [][/\ PageOpens =>
             /\ page.pc = "timer" /\ page.mounted
             /\ page.project # Null /\ page.project = page.projectId
             /\ \A k \in PageKinds : page'.subs[k].kind = k
             /\ \A k \in PageKinds : page'.subs[k].pid = page.projectId
        /\ page'.project # page.project =>
             /\ page.pc = "getProject"
             /\ calls[page.call].op = "getProject"
             /\ calls[page.call].pc = "resolved"
             /\ calls[page.call].result = page'.project
             /\ page'.project # Null
        /\ (/\ page.pc = "getProject" /\ page'.pc # "getProject"
            /\ page.mounted /\ calls[page.call].result = Null) =>
             /\ page'.error = "Project not found"
             /\ ~page'.loading
             /\ page'.pc = "done"]_vars

C24_Witness ==
  /\ \A k \in PageKinds : page.subs[k].kind = k /\ page.subs[k].state = "open"
  /\ page.project = page.projectId
  /\ page.error = ""


\* C25: every object that createTask, addTask, createTasks or updateTask
\* hands to the store has the field last_updated and its value is the
\* server-timestamp sentinel, whatever the caller passed for last_updated
\* (nothing, undefined or a value of its own).
C25_LastUpdatedIsServerTimestamp ==
  wire.op \in TaskWriteOps =>
    /\ Len(wire.payloads) = Len(wire.inputs)
    /\ \A i \in DOMAIN wire.payloads :
         /\ "last_updated" \in DOMAIN wire.payloads[i]
         /\ wire.payloads[i]["last_updated"] = ServerTimestamp

C25_Witness ==
  /\ wire.op = "updateTask"
  /\ Get(wire.inputs[1], "last_updated") = "v"
  /\ wire.payloads[1]["last_updated"] = ServerTimestamp

\* C26 (as stated): no object handed to the store has a field whose value
\* is undefined.
C26_NoUndefinedSent ==
  \A i \in DOMAIN wire.payloads :
    \A k \in DOMAIN wire.payloads[i] : wire.payloads[i][k] # Undefined


\* The documents of a pair; a pair's record holds the last committed save.
SettingsOf(p, u) ==
  { d \in wellness.docs : d.project_id = p /\ d.user_id = u }

UpsertPerPair ==
  \A p \in ProjectIds, u \in Users :
    /\ Cardinality(SettingsOf(p, u)) <= 1
    /\ wellness.saved[SettingsKey(p, u)] = NoSettings => SettingsOf(p, u) = {}
    /\ wellness.saved[SettingsKey(p, u)] # NoSettings =>
         \E d \in SettingsOf(p, u) : d.settings = wellness.saved[SettingsKey(p, u)]

ReadsSettings ==
  wellness.call.op = "getWellnessSettings"

\* C27 (as stated): at most one record per (project, user), holding the
\* settings of the last save of the pair, and every getWellnessSettings
\* call returns those settings, null if the pair was never saved.
C27_UpsertAndRead ==
  /\ UpsertPerPair
  /\ ReadsSettings =>
       wellness.call.result =
         wellness.saved[SettingsKey(wellness.call.project_id, wellness.call.user_id)]

\* C27 (amended): at most one record per (project, user), holding the
\* settings of the last committed save of the pair; a getWellnessSettings
\* call that the store answers returns those settings, null if the pair was
\* never saved; a call without a database handle or whose read fails
\* returns null whatever was saved.
C27_UpsertAndReadWhenAnswered ==
  /\ UpsertPerPair
  /\ ReadsSettings =>
       wellness.call.result =
         IF wellness.call.outcome = "resolved"
         THEN wellness.saved[SettingsKey(wellness.call.project_id, wellness.call.user_id)]
         ELSE NoSettings

C27_Witness ==
  /\ ReadsSettings
  /\ wellness.call.outcome = "resolved"
  /\ wellness.call.result = "settings B"
  /\ \E d \in wellness.docs : d.created_at >= 2


\* C28: a step of the layer keeps every notification, and changes at most
\* one of them, and of it only the read flag, from false to true; a step of
\* markNotificationRead that changes one changes the addressed one. So no
\* step sets a read flag back to false.
ReadOnly(d, e) == e = [d EXCEPT !.read = TRUE]

C28_OnlyReadFlagSet ==
  [][/\ wire'.op = "markNotificationRead" =>
          \A d \in notifications :
            d.id # wire'.inputs[1].notificationId => d \in notifications'
     /\ \A d \in notifications :
          \E e \in notifications' : e.id = d.id /\ (e = d \/ ReadOnly(d, e))
     /\ Cardinality({ d \in notifications : d \notin notifications' }) <= 1
     /\ \A e \in notifications' : \A d \in notifications :
          (e.id = d.id /\ d.read) => e.read
     /\ { e.id : e \in notifications' \ notifications } \cap
        { d.id : d \in notifications } # {} =>
          /\ Cardinality(notifications') = Cardinality(notifications)
          /\ clock' = clock]_vars

C28_Witness ==
  /\ wire.op = "markNotificationRead"
  /\ wire.payloads = << markNotificationReadData >>
  /\ \E d \in notifications :
       /\ d.id = wire.inputs[1].notificationId /\ d.read
       /\ \E e \in notifications : e.user_id = d.user_id /\ ~e.read


\* C29 (as stated): the project view's task list never has two entries with
\* the same task_id.
C29_NoDuplicateTaskIds ==
  \A i, j \in DOMAIN viewTasks :
    viewTasks[i].task_id = viewTasks[j].task_id => i = j


\* C31 (as stated): a step that drops a user from the member array of a
\* project that stays in existence is the commit of a
\* removeMemberFromProject call for that user.
C31_DroppedOnlyByOwnRemoval ==
  [][\A p \in ProjectIds, u \in Users :
       (/\ projects[p].exists /\ projects'[p].exists
        /\ u \in Range(projects[p].members)
        /\ u \notin Range(projects'[p].members)) =>
         \E c \in CallIds :
           /\ calls[c].op = "removeMemberFromProject" /\ calls[c].pc = "commit"
           /\ calls[c].pid = p /\ calls[c].user = u
           /\ calls'[c].pc = "resolved"]_vars


\* C32 (as stated): when no call of the view is in flight and the tasks
\* stream, if open, has delivered the last change, every entry of the
\* view's task list has the status its task document has in the store.
StatusSettled ==
  /\ \A c \in CallIds : calls[c].op = "none"
  /\ page.pc = "done"
  /\ page.subs["tasks"].state = "open" =>
       /\ page.subs["tasks"].fired
       /\ page.subs["tasks"].seen = PageDocs("tasks", page.projectId)

C32_SettledViewMatchesStore ==
  StatusSettled =>
    \A i \in DOMAIN viewTasks :
      viewTasks[i].status = tasks[viewTasks[i].task_id].status


\* C33 (as stated): when no call is in progress and no background write is
\* pending, a user is in the member array of an existing project exactly
\* when the role record of that project and user exists, and a project that
\* does not exist has no role record.
C33_MembersMatchRoles ==
  (/\ \A c \in CallIds : calls[c].op = "none"
   /\ background = {}) =>
    \A p \in ProjectIds, u \in Users :
      IF projects[p].exists
      THEN (u \in Range(projects[p].members)) <=> (roles[<< p, u >>] # "none")
      ELSE roles[<< p, u >>] = "none"


\* C34 (as stated): the commit of a joinProjectByCode call of a user who is
\* in the project's member array leaves the member array and that user's
\* role record as they were.
C34_JoinIdempotentForMember ==
  [][\A c \in CallIds :
       (/\ calls[c].op = "joinProjectByCode" /\ calls[c].pc = "commit"
        /\ calls'[c].pc = "resolved"
        /\ calls[c].user \in Range(projects[calls[c].pid].members)) =>
         /\ projects'[calls[c].pid].members = projects[calls[c].pid].members
         /\ roles'[<< calls[c].pid, calls[c].user >>] = roles[<< calls[c].pid, calls[c].user >>]]_vars


\* C35: a step of a deleteProject(p) call changes no document but, at its
\* commit, the project document p and tasks and messages with project_id p,
\* which it deletes: the other projects, the tasks and messages of other
\* projects, and all role records, milestones, schedule events, wellness
\* settings, resources, activities and notifications stay as they are.
DeleteSteps(c) ==
  /\ calls[c].op = "deleteProject"
  /\ calls'[c] # calls[c]

C35_DeletesOnlyProjectTasksMessages ==
  [][\A c \in CallIds :
       DeleteSteps(c) =>
         LET p == calls[c].pid IN
         /\ \A q \in ProjectIds : q # p => projects'[q] = projects[q]
         /\ projects'[p] # projects[p] => ~projects'[p].exists
         /\ \A t \in TaskIds :
              tasks'[t] # tasks[t] => tasks[t].project_id = p /\ ~tasks'[t].exists
         /\ \A m \in MessageIds :
              messages'[m] # messages[m] =>
                messages[m].project_id = p /\ ~messages'[m].exists
         /\ (projects'[p] # projects[p] \/ tasks' # tasks \/ messages' # messages) =>
              calls[c].pc = "commit"
         /\ roles' = roles
         /\ milestones' = milestones
         /\ scheduleEvents' = scheduleEvents
         /\ wellness' = wellness
         /\ resources' = resources
         /\ activities' = activities
         /\ notifications' = notifications]_vars

C35_Witness ==
  /\ ~projects[1].exists /\ numProjects = 1
  /\ \A c \in CallIds : calls[c].op = "none"
  /\ roles[<< 1, "u1" >>] = "admin"
  /\ \E m \in milestones : m.project_id = 1
  /\ \E t \in TaskIds : tasks[t].exists /\ tasks[t].project_id = 2
  /\ \E t \in TaskIds : ~tasks[t].exists /\ t <= numTasks
  /\ \E d \in notifications : d.project_id = 1
  /\ \E d \in wellness.docs : d.project_id = 1
  /\ \E d \in scheduleEvents : d.project_id = 1


\* C36: once the project view has unmounted, no step changes its project,
\* tasks, messages, members, loading flag or error, whatever getProject,
\* getProjectMembers and the streams deliver, and no subscription of the
\* view is opened; a view that unmounted before its timer ran has no
\* subscription at all.
Unmounted == ~page.mounted /\ page.pc # "start"

C36_UnmountedViewUnchanged ==
  [][Unmounted =>
       /\ page'.project = page.project
       /\ viewTasks' = viewTasks
       /\ page'.messages = page.messages
       /\ page'.members = page.members
       /\ page'.loading = page.loading
       /\ page'.error = page.error
       /\ \A k \in PageKinds :
            page'.subs[k].state = "open" => page.subs[k].state = "open"
       /\ page.pc # "done" => \A k \in PageKinds : page'.subs[k] = NoSub]_vars

\* After the unmount the tasks stream has handed a task and the messages
\* stream a message to their callbacks, and the view shows neither.
C36_Witness ==
  /\ Unmounted
  /\ page.subs["tasks"].last # << >> /\ viewTasks = << >>
  /\ page.subs["messages"].last # << >> /\ page.messages = << >>


\* C37: once the project view has unmounted, each of its three streams is
\* closed in the end: none stays open for ever.
C37_StreamsClosedAfterUnmount ==
  [](Unmounted => <>(\A k \in PageKinds : page.subs[k].state # "open"))


\* C38: a project view that stays mounted leaves the loading state in the
\* end, whether the store answers the read of the project, fails it or
\* never answers; and whenever it is not loading, either it holds a project
\* or it holds an error, never both and never neither.
ProjectLoaded == page.project # Null
ErrorSet == page.error # ""

C38_LoadingEndsWithProjectOrError ==
  /\ page.mounted ~> ~page.loading
  /\ [](~page.loading => (ProjectLoaded # ErrorSet))

\* The view shows "Project not found" for a project id it was mounted with.
C38_Witness ==
  /\ page.mounted /\ ~page.loading
  /\ ErrorSet /\ ~ProjectLoaded
  /\ page.projectId # Null

====
